---- MODULE Spec2Model ----
(***************************************************************************)
(* BanVic Analytics dashboard (src/app.py and src/pages): the column       *)
(* guessing heuristic, the normalization of the transactions table, the    *)
(* filter predicates, the KPIs and the session state shared with the       *)
(* sub-pages, as a state machine of the Streamlit script runs.             *)
(*                                                                         *)
(* Text is a sequence of one-character strings, so that substring tests    *)
(* and lower-casing are computed and not assumed.                          *)
(***************************************************************************)
EXTENDS Integers, Sequences, FiniteSets, TLC

VARIABLES
    gcDf,        \* guess_col harness: the df argument
    gcKw,        \* guess_col harness: the keywords argument
    gcRes,       \* guess_col harness: the value returned
    gcPc,        \* guess_col harness: "idle", "call" before the call, "done" after
    lcFile,      \* load_csv_auto: the path argument, as what each read of it gives
    lcPc,        \* load_csv_auto: position in the function
    lcTried,     \* load_csv_auto: the read configurations tried so far, in order
    lcRes,       \* load_csv_auto: the value returned
    ldFiles,     \* load_data: what find_file gives for each table, as lcFile
    ldPc,        \* load_data: position in the function
    ldOut,       \* load_data: the values put in out so far, in the order of files
    rawTx,       \* data/transacoes.csv as load_data caches it (NoTable: no file)
    agencias,    \* the branch reference table, or NoTable
    clientes,    \* the client reference table, or NoTable
    tzaware,     \* the date texts of the transactions file carry a UTC offset
    badFiles,    \* the files of data/ that exist and that no read configuration can read
    pc,          \* position of the current script run
    colmap,      \* date_col, amount_col, agency_id_col, client_id_col, status_col
    date_range,  \* value of the date_input widget: a tuple of 0, 1 or 2 days
    sel_ag,      \* value of the "Agencia" selectbox
    sel_client,  \* value of the "Cliente" selectbox
    pdf_click,   \* the "Gerar e baixar PDF" button was pressed for this run
    kpi,         \* total_trans, total_vol, ticket, aprov_rate of the run
    view,        \* what the run has rendered: cards, charts, tables, messages, the PDF
    heap,        \* the data frames alive: T transacoes, D df, S the one the session kept
    dfRef,       \* the object the variable df is bound to
    session,     \* st.session_state: its keys and the object under df_filtered
    canonFirst,  \* history: the canonical set as first derived
    probe        \* history: one earlier application of the filter, inputs and output

gcVars == <<gcDf, gcKw, gcRes, gcPc>>

lcVars == <<lcFile, lcPc, lcTried, lcRes, ldFiles, ldPc, ldOut>>

inputVars == <<rawTx, agencias, clientes, tzaware, badFiles>>

widgetVars == <<date_range, sel_ag, sel_client, pdf_click>>

objVars == <<heap, dfRef, session>>

histVars == <<canonFirst, probe>>

vars == <<gcVars, lcVars, inputVars, pc, colmap, widgetVars, kpi, view, objVars, histVars>>

-----------------------------------------------------------------------------
(* Text *)

UpperChars ==
    <<"A", "B", "C", "D", "E", "F", "G", "H", "I", "J", "K", "L", "M", "N", "O", "P", "Q", "R", "S", "T", "U", "V", "W", "X", "Y", "Z">>

LowerChars ==
    <<"a", "b", "c", "d", "e", "f", "g", "h", "i", "j", "k", "l", "m", "n", "o", "p", "q", "r", "s", "t", "u", "v", "w", "x", "y", "z">>

\* str.lower() on one character
LowerChar(ch) ==
    IF \E i \in 1..Len(UpperChars) : UpperChars[i] = ch
    THEN LowerChars[CHOOSE i \in 1..Len(UpperChars) : UpperChars[i] = ch]
    ELSE ch

\* c.lower()
LowerStr(str) ==
    [i \in 1..Len(str) |-> LowerChar(str[i])]

\* Python's  k in s  on strings
IsSubstr(k, str) ==
    \E i \in 0..(Len(str) - Len(k)) : SubSeq(str, i + 1, i + Len(k)) = k

\* Python's None, where a column name is expected
None ==
    <<"None">>

\* a table that is None
NoTable ==
    [present |-> FALSE, cols |-> <<>>, rows |-> <<>>]

-----------------------------------------------------------------------------
(* guess_col *)

RECURSIVE FirstColWith(_, _, _)
\* the inner loop  for c in cols: if kw in c.lower(): return c
\* from column j on; 0 when the loop ends without returning
FirstColWith(cols, kw, j) ==
    IF j > Len(cols) THEN 0
    ELSE IF IsSubstr(kw, LowerStr(cols[j])) THEN j
    ELSE FirstColWith(cols, kw, j + 1)

RECURSIVE GuessFrom(_, _, _)
\* the outer loop  for kw in keywords  from keyword i on, and the fallback
GuessFrom(cols, keywords, i) ==
    IF i > Len(keywords)
    THEN IF Len(cols) > 0 THEN cols[1] ELSE None
    ELSE LET j == FirstColWith(cols, keywords[i], 1)
         IN IF j # 0 THEN cols[j] ELSE GuessFrom(cols, keywords, i + 1)

RECURSIVE GuessColumnMajor(_, _, _)
\* guess_col with its two loops exchanged: column order before keyword order
GuessColumnMajor(cols, keywords, j) ==
    IF j > Len(cols)
    THEN IF Len(cols) > 0 THEN cols[1] ELSE None
    ELSE IF \E i \in 1..Len(keywords) : IsSubstr(keywords[i], LowerStr(cols[j]))
         THEN cols[j]
         ELSE GuessColumnMajor(cols, keywords, j + 1)

guess_col_colmajor(df, keywords) ==
    IF ~df.present THEN None ELSE GuessColumnMajor(df.cols, keywords, 1)

guess_col(df, keywords) ==
    IF ~df.present THEN None ELSE GuessFrom(df.cols, keywords, 1)

-----------------------------------------------------------------------------
(* The keyword lists of the call sites *)

KwDate ==
    << <<"d", "a", "t", "a">>, <<"d", "a", "t", "e">>, <<"d", "t">>, <<"t", "i", "m", "e", "s", "t", "a", "m", "p">>, <<"c", "r", "e", "a", "t", "e", "d">>, <<"d", "a", "t", "a", "h", "o", "r", "a">>, <<"d", "a", "t", "e", "t", "i", "m", "e">> >>

KwAmount ==
    << <<"v", "a", "l", "o", "r">>, <<"a", "m", "o", "u", "n", "t">>, <<"v", "l", "r">>, <<"m", "o", "n", "t", "a", "n", "t", "e">>, <<"p", "r", "i", "c", "e">>, <<"t", "o", "t", "a", "l">>, <<"v", "a", "l", "u", "e">> >>

KwAgency ==
    << <<"a", "g", "e", "n", "c", "i", "a">>, <<"b", "r", "a", "n", "c", "h">>, <<"a", "g", "e", "n", "c", "y">>, <<"b", "r", "a", "n", "c", "h", "_", "i", "d">>, <<"c", "o", "d", "_", "a", "g", "e", "n", "c", "i", "a">>, <<"i", "d", "_", "a", "g", "e", "n", "c", "i", "a">> >>

KwClient ==
    << <<"c", "l", "i", "e", "n", "t", "e">>, <<"c", "l", "i", "e", "n", "t">>, <<"c", "u", "s", "t", "o", "m", "e", "r">>, <<"c", "u", "s", "t", "_", "i", "d">>, <<"i", "d", "_", "c", "l", "i", "e", "n", "t", "e">>, <<"c", "o", "d", "_", "c", "l", "i", "e", "n", "t", "e">>,
       <<"c", "p", "f">>, <<"c", "n", "p", "j">>, <<"d", "o", "c", "u", "m", "e", "n", "t", "o">> >>

KwStatus ==
    << <<"s", "t", "a", "t", "u", "s">>, <<"s", "i", "t", "u", "a", "c", "a", "o">>, <<"r", "e", "s", "u", "l", "t", "a", "d", "o">>, <<"a", "p", "r", "o", "v">>, <<"a", "p", "p", "r", "o", "v", "e", "d">>, <<"e", "s", "t", "a", "d", "o">> >>

KwAgName ==
    << <<"n", "o", "m", "e">>, <<"n", "a", "m", "e">>, <<"d", "e", "s", "c", "r", "i", "c", "a", "o">>, <<"c", "i", "t", "y">>, <<"c", "i", "d", "a", "d", "e">> >>

KwAgId ==
    << <<"i", "d">>, <<"a", "g", "e", "n", "c", "i", "a">>, <<"b", "r", "a", "n", "c", "h">>, <<"b", "r", "a", "n", "c", "h", "_", "i", "d">> >>

KwCliOption ==
    << <<"n", "o", "m", "e">>, <<"n", "a", "m", "e">>, <<"r", "a", "z", "a", "o">>, <<"c", "l", "i", "e", "n", "t", "e">> >>

KwCliName ==
    << <<"n", "o", "m", "e">>, <<"n", "a", "m", "e">>, <<"r", "a", "z", "a", "o">> >>

KwCliId ==
    << <<"i", "d">>, <<"c", "l", "i", "e", "n", "t", "e">>, <<"c", "u", "s", "t", "o", "m", "e", "r">> >>

-----------------------------------------------------------------------------
(* Sequences over a set, up to a length *)

SeqUpTo(S, n) ==
    UNION {[1..k -> S] : k \in 0..n}

-----------------------------------------------------------------------------
(* Cells, tables and data frames *)

\* pd.NaT, the null timestamp
NaT == -1

\* NaN, the null amount
NaN == -1

\* what pd.to_datetime makes of an integer: a count from the epoch
EpochTs == 0

\* A cell of a loaded table: its text s (what astype(str) renders), the kind
\* of value read_csv and the parsers find in it, and that value.
\* Timestamps count half days: 2*d is day d at 00:00, 2*d+1 day d at 12:00.
NumCell(n, s) ==
    [k |-> "num", n |-> n, s |-> s]

DateCell(t, s) ==
    [k |-> "date", n |-> t, s |-> s]

TxtCell(s) ==
    [k |-> "txt", n |-> 0, s |-> s]

NullCell ==
    [k |-> "null", n |-> 0, s |-> <<"n", "a", "n">>]

\* pd.to_datetime(s, errors="coerce", dayfirst=True), cell by cell
to_datetime_safe(c) ==
    CASE c.k = "date" -> c.n
      [] c.k = "num"  -> EpochTs
      [] OTHER        -> NaT

\* pd.to_numeric(s, errors="coerce"), cell by cell
to_numeric(c) ==
    IF c.k = "num" THEN c.n ELSE NaN

\* date_obj.date() and pd.to_datetime(date)
DayOf(t) ==
    t \div 2

Midnight(d) ==
    2 * d

\* a data frame that does not exist
NoFrame ==
    [present |-> FALSE, cols |-> <<>>, rows |-> <<>>, tz |-> "naive",
     extra |-> {}, strcols |-> {}]

RangeOf(seq) ==
    {seq[i] : i \in 1..Len(seq)}

\* name in df.columns
InCols(cols, name) ==
    name \in RangeOf(cols)

\* position of the column called name
ColIndex(cols, name) ==
    CHOOSE i \in 1..Len(cols) : cols[i] = name /\ \A j \in 1..(i - 1) : cols[j] # name

\* Python truth of a column name: neither None nor ""
Truthy(name) ==
    name # None /\ Len(name) > 0

RECURSIVE LStrip(_)
LStrip(str) ==
    IF Len(str) > 0 /\ str[1] = " " THEN LStrip(Tail(str)) ELSE str

RECURSIVE RStrip(_)
RStrip(str) ==
    IF Len(str) > 0 /\ str[Len(str)] = " " THEN RStrip(SubSeq(str, 1, Len(str) - 1)) ELSE str

\* c.strip()
StripStr(str) ==
    RStrip(LStrip(str))

\* df.columns = [c.strip() for c in df.columns]
StripTable(tbl) ==
    [tbl EXCEPT !.cols = [i \in 1..Len(tbl.cols) |-> StripStr(tbl.cols[i])]]

\* the branch and the client table as the script sees them after line 331
AgTable ==
    StripTable(agencias)

CliTable ==
    StripTable(clientes)

-----------------------------------------------------------------------------
(* Normalization: lines 326-349 of app.py *)

ApprovalTokens ==
    << <<"a", "p", "r", "o", "v", "a">>, <<"a", "p", "r", "o", "v">>, <<"o", "k">>, <<"s", "u", "c", "e", "s", "s">>, <<"c", "o", "n", "c", "l", "u">> >>

\* s.str.contains("aprova|aprov|ok|sucess|conclu", na=False) on the lowered text
ContainsApproval(c) ==
    \E i \in 1..Len(ApprovalTokens) : IsSubstr(ApprovalTokens[i], LowerStr(c.s))

\* the five guesses of lines 334-338
GuessCols(tbl) ==
    [date_col      |-> guess_col(tbl, KwDate),
     amount_col    |-> guess_col(tbl, KwAmount),
     agency_id_col |-> guess_col(tbl, KwAgency),
     client_id_col |-> guess_col(tbl, KwClient),
     status_col    |-> guess_col(tbl, KwStatus)]

NoCols ==
    [date_col |-> None, amount_col |-> None, agency_id_col |-> None,
     client_id_col |-> None, status_col |-> None]

\* transacoes["_dt"] of one row
RowDt(cols, cm, cells) ==
    IF InCols(cols, cm.date_col)
    THEN to_datetime_safe(cells[ColIndex(cols, cm.date_col)])
    ELSE NaT

\* transacoes["_amt"] of one row (a loaded table has a first column)
RowAmt(cols, cm, cells) ==
    IF InCols(cols, cm.amount_col)
    THEN to_numeric(cells[ColIndex(cols, cm.amount_col)])
    ELSE to_numeric(cells[1])

\* transacoes["_approved"] of one row
RowApproved(cols, cm, cells) ==
    IF Truthy(cm.status_col) /\ InCols(cols, cm.status_col)
    THEN ContainsApproval(cells[ColIndex(cols, cm.status_col)])
    ELSE TRUE

\* the dtype of the parsed column: tz-aware only when some text carried an offset
DtTz(cols, cm, rows, aware) ==
    IF /\ aware
       /\ InCols(cols, cm.date_col)
       /\ \E i \in 1..Len(rows) : rows[i][ColIndex(cols, cm.date_col)].k = "date"
    THEN "utc" ELSE "naive"

CanonRow(cols, cm, cells) ==
    [cells    |-> cells,
     dt       |-> RowDt(cols, cm, cells),
     amt      |-> RowAmt(cols, cm, cells),
     approved |-> RowApproved(cols, cm, cells)]

\* the transactions frame after line 349
Normalize(raw, aware) ==
    LET tbl == StripTable(raw)
        cm  == GuessCols(tbl)
    IN [present |-> TRUE,
        cols    |-> tbl.cols,
        rows    |-> [i \in 1..Len(tbl.rows) |-> CanonRow(tbl.cols, cm, tbl.rows[i])],
        tz      |-> DtTz(tbl.cols, cm, tbl.rows, aware),
        extra   |-> {"_dt", "_amt", "_approved"},
        strcols |-> {}]

-----------------------------------------------------------------------------
(* Sidebar: lines 351-391 of app.py *)

\* the last day the date picker offers
MaxDay == 2

\* datetime.today().date()
Today ==
    MaxDay

Todas ==
    <<"T", "o", "d", "a", "s">>

Todos ==
    <<"T", "o", "d", "o", "s">>

MinOf(S) ==
    CHOOSE x \in S : \A y \in S : x <= y

MaxOf(S) ==
    CHOOSE x \in S : \A y \in S : x >= y

\* the parsed timestamps of a frame, NaT skipped as min() and max() skip it
ParsedDts(f) ==
    {f.rows[i].dt : i \in 1..Len(f.rows)} \ {NaT}

\* value=[min_date_date, max_date_date] of the date_input
DefaultRange(f) ==
    IF ParsedDts(f) = {}
    THEN <<Today, Today>>
    ELSE <<DayOf(MinOf(ParsedDts(f))), DayOf(MaxOf(ParsedDts(f)))>>

\* what the date_input can return: nothing, a start alone, or start and end
DateRanges ==
    {<<>>} \cup {<<d>> : d \in 0..MaxDay}
           \cup {<<d, e>> : d \in 0..MaxDay, e \in 0..MaxDay}

ValidRange(dr) ==
    Len(dr) = 2 => dr[1] <= dr[2]

\* tbl[name].astype(str), as the set of its values
TableTexts(tbl, name) ==
    {tbl.rows[i][ColIndex(tbl.cols, name)].s : i \in 1..Len(tbl.rows)}

FrameTexts(f, name) ==
    {f.rows[i].cells[ColIndex(f.cols, name)].s : i \in 1..Len(f.rows)}

ag_name_col ==
    IF AgTable.present THEN guess_col(AgTable, KwAgName) ELSE None

ag_master_id_col ==
    IF AgTable.present THEN guess_col(AgTable, KwAgId) ELSE None

\* agency_options, without its order
agency_options(f, cm) ==
    {Todas} \cup
    (IF AgTable.present /\ InCols(AgTable.cols, ag_name_col)
     THEN TableTexts(AgTable, ag_name_col)
     ELSE IF InCols(f.cols, cm.agency_id_col)
          THEN FrameTexts(f, cm.agency_id_col)
          ELSE {})

\* the column the client selector lists: guess_col(clientes, [.., "cliente"])
cli_name ==
    IF CliTable.present THEN guess_col(CliTable, KwCliOption) ELSE None

\* client_options, without its order
client_options ==
    {Todos} \cup
    (IF CliTable.present /\ InCols(CliTable.cols, cli_name)
     THEN TableTexts(CliTable, cli_name)
     ELSE {})

-----------------------------------------------------------------------------
(* Filters: lines 393-424 of app.py.  A predicate yields the rows it keeps  *)
(* and whether it indexed the frame (which makes a new object).            *)

\* lines 397-402; ok is FALSE when the comparison raises TypeError: a
\* tz-naive column against the tz-aware bounds
DatePredicate(f, dr) ==
    IF Len(dr) = 2
    THEN IF f.tz = "naive"
         THEN [ok |-> FALSE, rows |-> <<>>, masked |-> FALSE]
         ELSE LET start == Midnight(dr[1])
                  end   == Midnight(dr[2])
                  Keep(r) == r.dt # NaT /\ r.dt >= start /\ r.dt <= end
              IN [ok |-> TRUE, rows |-> SelectSeq(f.rows, Keep), masked |-> TRUE]
    ELSE [ok |-> TRUE, rows |-> f.rows, masked |-> FALSE]

\* tbl.loc[tbl[name_col].astype(str) == sel, id_col].unique()
IdsNamed(tbl, name_col, id_col, sel) ==
    {tbl.rows[i][ColIndex(tbl.cols, id_col)] :
        i \in {j \in 1..Len(tbl.rows) : tbl.rows[j][ColIndex(tbl.cols, name_col)].s = sel}}

\* df[df[col].isin(ids)]
RowsIn(rows, cols, col, ids) ==
    LET Keep(r) == r.cells[ColIndex(cols, col)] \in ids
    IN SelectSeq(rows, Keep)

\* df[df[col].astype(str) == sel]
RowsEq(rows, cols, col, sel) ==
    LET Keep(r) == r.cells[ColIndex(cols, col)].s = sel
    IN SelectSeq(rows, Keep)

\* the branch predicate matching the first resolved id only
BranchFirstIdOnly(rows, cols, cm, sel) ==
    IF sel # Todas /\ InCols(cols, cm.agency_id_col)
    THEN [masked |-> TRUE,
          rows |->
            IF AgTable.present /\ Truthy(ag_name_col) /\ Truthy(ag_master_id_col)
            THEN LET ids == IdsNamed(AgTable, ag_name_col, ag_master_id_col, sel)
                 IN IF ids # {}
                    THEN RowsIn(rows, cols, cm.agency_id_col,
                                {CHOOSE c \in ids : \A d \in ids : c.n <= d.n})
                    ELSE RowsEq(rows, cols, cm.agency_id_col, sel)
            ELSE RowsEq(rows, cols, cm.agency_id_col, sel)]
    ELSE [masked |-> FALSE, rows |-> rows]

\* lines 404-413
BranchPredicate(rows, cols, cm, sel) ==
    IF sel # Todas /\ InCols(cols, cm.agency_id_col)
    THEN [masked |-> TRUE,
          rows |->
            IF AgTable.present /\ Truthy(ag_name_col) /\ Truthy(ag_master_id_col)
            THEN LET ids == IdsNamed(AgTable, ag_name_col, ag_master_id_col, sel)
                 IN IF ids # {}
                    THEN RowsIn(rows, cols, cm.agency_id_col, ids)
                    ELSE RowsEq(rows, cols, cm.agency_id_col, sel)
            ELSE RowsEq(rows, cols, cm.agency_id_col, sel)]
    ELSE [masked |-> FALSE, rows |-> rows]

cli_name_col ==
    IF CliTable.present THEN guess_col(CliTable, KwCliName) ELSE None

cli_id_master ==
    IF CliTable.present THEN guess_col(CliTable, KwCliId) ELSE None

\* lines 415-424: no filter at all when the name resolves to no id
ClientPredicate(rows, cols, cm, sel) ==
    IF sel # Todos /\ InCols(cols, cm.client_id_col) /\ CliTable.present
    THEN IF Truthy(cli_name_col) /\ Truthy(cli_id_master)
            /\ InCols(CliTable.cols, cli_name_col)
         THEN LET ids == IdsNamed(CliTable, cli_name_col, cli_id_master, sel)
              IN IF ids # {}
                 THEN [masked |-> TRUE,
                       rows |-> RowsIn(rows, cols, cm.client_id_col, ids)]
                 ELSE [masked |-> FALSE, rows |-> rows]
         ELSE [masked |-> TRUE, rows |-> RowsEq(rows, cols, cm.client_id_col, sel)]
    ELSE [masked |-> FALSE, rows |-> rows]

\* lines 394-424 on the frame f: the three predicates one after the other
ApplyFilters(f, cm, dr, sa, sc) ==
    LET d == DatePredicate(f, dr)
        b == BranchPredicate(d.rows, f.cols, cm, sa)
        c == ClientPredicate(b.rows, f.cols, cm, sc)
    IN [ok     |-> d.ok,
        rows   |-> c.rows,
        masked |-> d.masked \/ b.masked \/ c.masked]

-----------------------------------------------------------------------------
(* KPIs: lines 441-445 of app.py *)

RECURSIVE SumAmt(_)
\* df["_amt"].sum(skipna=True): one half of the rows, then the other
SumAmt(rows) ==
    IF Len(rows) = 0 THEN 0
    ELSE IF Len(rows) = 1 THEN (IF rows[1].amt = NaN THEN 0 ELSE rows[1].amt)
    ELSE LET h == Len(rows) \div 2
         IN SumAmt(SubSeq(rows, 1, h)) + SumAmt(SubSeq(rows, h + 1, Len(rows)))

CountApproved(rows) ==
    Cardinality({i \in 1..Len(rows) : rows[i].approved})

CountAmt(rows) ==
    Cardinality({i \in 1..Len(rows) : rows[i].amt # NaN})

NoKpi ==
    [total_trans |-> 0, total_vol |-> 0, ticket_num |-> 0, ticket_den |-> 1,
     aprov_nan |-> TRUE, aprov_num |-> 0, aprov_den |-> 1]

\* the KPIs with the mean taken over the non-null amounts, as Series.mean does
KpisMeanOfNonNull(rows) ==
    [total_trans |-> Len(rows),
     total_vol   |-> SumAmt(rows),
     ticket_num  |-> IF CountAmt(rows) > 0 THEN SumAmt(rows) ELSE 0,
     ticket_den  |-> IF CountAmt(rows) > 0 THEN CountAmt(rows) ELSE 1,
     aprov_nan   |-> Len(rows) = 0,
     aprov_num   |-> 100 * CountApproved(rows),
     aprov_den   |-> IF Len(rows) > 0 THEN Len(rows) ELSE 1]

\* total_trans, total_vol, ticket = total_vol / total_trans (a fraction
\* ticket_num / ticket_den), aprov_rate = mean(_approved) * 100 (NaN when empty)
Kpis(rows) ==
    [total_trans |-> Len(rows),
     total_vol   |-> SumAmt(rows),
     ticket_num  |-> IF Len(rows) > 0 THEN SumAmt(rows) ELSE 0,
     ticket_den  |-> IF Len(rows) > 0 THEN Len(rows) ELSE 1,
     aprov_nan   |-> Len(rows) = 0,
     aprov_num   |-> 100 * CountApproved(rows),
     aprov_den   |-> IF Len(rows) > 0 THEN Len(rows) ELSE 1]

-----------------------------------------------------------------------------
(* What is rendered: the KPI card of lines 466-468 and the KPI table of the  *)
(* PDF (lines 173-179)                                                      *)

DigitChars ==
    <<"0", "1", "2", "3", "4", "5", "6", "7", "8", "9">>

RECURSIVE Digits(_)
\* str(n) for a natural number n
Digits(n) ==
    IF n < 10 THEN <<DigitChars[n + 1]>>
    ELSE Digits(n \div 10) \o <<DigitChars[(n % 10) + 1]>>

\* num / den in tenths, rounded half to even as the float formatting rounds
RoundTenths(num, den) ==
    LET q == (10 * num) \div den
        r == (10 * num) % den
    IN IF 2 * r > den \/ (2 * r = den /\ q % 2 = 1) THEN q + 1 ELSE q

\* f"{x:.1f}%" for x = num / den
FormatPct(num, den) ==
    LET t == RoundTenths(num, den)
    IN Digits(t \div 10) \o <<".">> \o Digits(t % 10) \o <<"%">>

\* the approval rate that renders N/A for the empty set as 0.0%
AprovDisplayZero(k) ==
    FormatPct(k.aprov_num, k.aprov_den)

\* f"{aprov_rate:.1f}%" if not np.isnan(aprov_rate) else "N/A"
AprovDisplay(k) ==
    IF k.aprov_nan THEN <<"N", "/", "A">> ELSE FormatPct(k.aprov_num, k.aprov_den)

-----------------------------------------------------------------------------
(* Reading the files: load_csv_auto and load_data, lines 89-112 *)

ReadConfigsLatinFirst ==
    << "semicolon_latin1", "comma", "semicolon" >>

\* the three calls of pd.read_csv, in the order of the nested try blocks
ReadConfigs ==
    << "comma", "semicolon", "semicolon_latin1" >>

ConfigSet ==
    {ReadConfigs[i] : i \in DOMAIN ReadConfigs}

\* A path as load_csv_auto sees it: None, or a file and what pd.read_csv does
\* with it under each configuration, "table" or "raise".  A semicolon file
\* read with the default separator gives a table (of one column): a read that
\* succeeds is not the same as a read that splits the columns.
FilePaths ==
    [path : BOOLEAN, read : [ConfigSet -> {"table", "raise"}]]

NoPath ==
    [path |-> FALSE, read |-> [c \in ConfigSet |-> "raise"]]

Files ==
    {f \in FilePaths : f.path} \cup {NoPath}

Readable ==
    [path |-> TRUE, read |-> [c \in ConfigSet |-> "table"]]

Unreadable ==
    [path |-> TRUE, read |-> [c \in ConfigSet |-> "raise"]]

\* pd.read_csv(path, ...) under configuration c: the table as c parses it,
\* named by c, or the exception
ReadCsv(f, c) ==
    IF f.read[c] = "table" THEN c ELSE "raise"

\* load_csv_auto(path) as one step: [raised, value, tried]
LoadCsvAuto(f) ==
    IF ~f.path THEN [raised |-> FALSE, value |-> "None", tried |-> <<>>]
    ELSE IF ReadCsv(f, "comma") # "raise"
    THEN [raised |-> FALSE, value |-> ReadCsv(f, "comma"), tried |-> <<"comma">>]
    ELSE IF ReadCsv(f, "semicolon") # "raise"
    THEN [raised |-> FALSE, value |-> ReadCsv(f, "semicolon"),
          tried |-> <<"comma", "semicolon">>]
    ELSE IF ReadCsv(f, "semicolon_latin1") # "raise"
    THEN [raised |-> FALSE, value |-> ReadCsv(f, "semicolon_latin1"), tried |-> ReadConfigs]
    ELSE [raised |-> TRUE, value |-> "unset", tried |-> ReadConfigs]

\* the keys of the dict files of load_data, in the order of the loop
FileKeys ==
    << "transacoes", "agencias", "clientes" >>

\* load_data() as one step: it raises when one load_csv_auto does (there is
\* no try around the call, nor around load_data() at line 317)
LoadDataRaises(files) ==
    \E i \in DOMAIN FileKeys : LoadCsvAuto(files[i]).raised

-----------------------------------------------------------------------------
(* Calendar.  Timestamp 0 is 1970-01-01 00:00, a Thursday; the model's      *)
(* timestamps lie in 1970, and a date six months back may lie in 1969.      *)

\* days of the months of a year that is not a leap year
MonthDays ==
    <<31, 28, 31, 30, 31, 30, 31, 31, 30, 31, 30, 31>>

DaysPerYear == 365

RECURSIVE DaysBefore(_)
\* the days of the year before the first of month m
DaysBefore(m) ==
    IF m = 1 THEN 0 ELSE DaysBefore(m - 1) + MonthDays[m - 1]

\* month (1..12) of day number d (0..364) of a year
MonthOfYearDay(d) ==
    CHOOSE m \in 1..12 : DaysBefore(m) <= d /\ d < DaysBefore(m) + MonthDays[m]

\* ts - pd.DateOffset(months=n) for 1 <= n <= 12 and a timestamp of 1970:
\* the same day of the month n months earlier, or the last day of that month
\* when it is shorter, at the same time of day; NaT stays NaT
MonthsBack(ts, n) ==
    IF ts = NaT THEN NaT
    ELSE LET d    == DayOf(ts)
             half == ts % 2
             m    == MonthOfYearDay(d)
             dom  == d - DaysBefore(m) + 1
             back == m - n
             m2   == IF back >= 1 THEN back ELSE back + 12
             base == IF back >= 1 THEN 0 ELSE 0 - DaysPerYear
             dom2 == IF dom <= MonthDays[m2] THEN dom ELSE MonthDays[m2]
         IN 2 * (base + DaysBefore(m2) + dom2 - 1) + half

\* Series.dt.dayofweek: Monday is 0
DayOfWeek(ts) ==
    (DayOf(ts) + 3) % 7

-----------------------------------------------------------------------------
(* Text in code point order, as groupby sorts its keys *)

\* a sequence with every element worked out
Listed(seq) ==
    SelectSeq(seq, LAMBDA x : TRUE)

CodeOrder ==
    <<" ", "-", ".", "/", "0", "1", "2", "3", "4", "5", "6", "7", "8", "9",
      "A", "B", "C", "D", "E", "F", "G", "H", "I", "J", "K", "L", "M",
      "N", "O", "P", "Q", "R", "S", "T", "U", "V", "W", "X", "Y", "Z", "_",
      "a", "b", "c", "d", "e", "f", "g", "h", "i", "j", "k", "l", "m",
      "n", "o", "p", "q", "r", "s", "t", "u", "v", "w", "x", "y", "z",
      "á", "ç">>

CharRank(ch) ==
    CHOOSE i \in 1..Len(CodeOrder) : CodeOrder[i] = ch

RECURSIVE StrLess(_, _)
\* a < b for two Python strings
StrLess(a, b) ==
    IF Len(b) = 0 THEN FALSE
    ELSE IF Len(a) = 0 THEN TRUE
    ELSE IF a[1] = b[1] THEN StrLess(Tail(a), Tail(b))
    ELSE CharRank(a[1]) < CharRank(b[1])

\* the texts of a set in ascending order: a text comes behind as many
\* texts as are less than it
SortedTexts(S) ==
    LET behind == {<<x, Cardinality({y \in S : StrLess(y, x)})>> : x \in S}
    IN Listed([i \in 1..Cardinality(S) |-> (CHOOSE b \in behind : b[2] = i - 1)[1]])

-----------------------------------------------------------------------------
(* groupby(label)[amount].agg(count, sum) and sort_values *)

\* a record of a frame with the label it is grouped under and the text of
\* the id the label was made from (None where it was made from no id)
Labelled(r, id, label) ==
    [dt |-> r.dt, amt |-> r.amt, id |-> id, label |-> label]

\* the group of one label: count counts the amounts that are not null
GroupOf(lrows, label) ==
    LET mine == SelectSeq(lrows, LAMBDA r : r.label = label)
    IN [label |-> label, n |-> CountAmt(mine), vol |-> SumAmt(mine)]

\* one row per label, the labels ascending
GroupByLabel(lrows) ==
    LET keys == SortedTexts({lrows[i].label : i \in 1..Len(lrows)})
    IN Listed([i \in 1..Len(keys) |-> GroupOf(lrows, keys[i])])

\* the positions 1..Len(keys) by key.  sort_values sorts with quicksort,
\* which keeps no order among equal keys: rev says whether equal keys come
\* out in their input order or in the opposite one
OrderOf(keys, desc, rev) ==
    LET n == Len(keys)
        First(j, i) ==
            IF keys[j] = keys[i] THEN (IF rev THEN j > i ELSE j < i)
            ELSE IF desc THEN keys[j] > keys[i] ELSE keys[j] < keys[i]
        place == Listed([i \in 1..n |-> 1 + Cardinality({j \in 1..n : First(j, i)})])
    IN Listed([p \in 1..n |-> CHOOSE i \in 1..n : place[i] = p])

\* largest key first
OrderDesc(keys, rev) ==
    OrderOf(keys, TRUE, rev)

\* smallest key first
OrderAsc(keys, rev) ==
    OrderOf(keys, FALSE, rev)

\* rows in the order of a sequence of positions
Permute(rows, order) ==
    Listed([i \in 1..Len(order) |-> rows[order[i]]])

\* sort_values("n_trans"): smallest count first
SortByCountAsc(grows, rev) ==
    Permute(grows, OrderAsc(Listed([i \in 1..Len(grows) |-> grows[i].n]), rev))

\* the groups left in the order groupby gives them
SortByCountSkipped(grows, rev) ==
    grows

\* sort_values("n_trans", ascending=False)
SortByCountDesc(grows, rev) ==
    Permute(grows, OrderDesc(Listed([i \in 1..Len(grows) |-> grows[i].n]), rev))

\* sort_values("volume", ascending=True)
SortByVolumeAsc(grows, rev) ==
    Permute(grows, OrderAsc(Listed([i \in 1..Len(grows) |-> grows[i].vol]), rev))

\* sort_values("volume", ascending=False)
SortByVolumeDesc(grows, rev) ==
    Permute(grows, OrderDesc(Listed([i \in 1..Len(grows) |-> grows[i].vol]), rev))

\* the first rows in place of the last ones
HeadAsTail(rows, n) ==
    IF Len(rows) <= n THEN rows ELSE SubSeq(rows, Len(rows) - n + 1, Len(rows))

\* df.head(n)
Head_n(rows, n) ==
    IF Len(rows) <= n THEN rows ELSE SubSeq(rows, 1, n)

-----------------------------------------------------------------------------
(* Labels: the left merge with the reference table and fillna *)

Desconhecida ==
    <<"d", "e", "s", "c", "o", "n", "h", "e", "c", "i", "d", "a">>

\* df[col].astype(str) of one record
IdText(r, cols, col) ==
    r.cells[ColIndex(cols, col)].s

RECURSIVE DropDuplicates(_)
\* drop_duplicates(): the first of equal rows stays
DropDuplicates(seq) ==
    IF Len(seq) = 0 THEN <<>>
    ELSE LET init == DropDuplicates(SubSeq(seq, 1, Len(seq) - 1))
             last == seq[Len(seq)]
         IN IF last \in RangeOf(init) THEN init ELSE Append(init, last)

\* tbl[[id_col, name_col]].drop_duplicates() with the id as text
Mapa(tbl, id_col, name_col) ==
    DropDuplicates([i \in 1..Len(tbl.rows) |->
                      [id   |-> tbl.rows[i][ColIndex(tbl.cols, id_col)].s,
                       name |-> tbl.rows[i][ColIndex(tbl.cols, name_col)]]])

\* the rows the left merge makes of one record whose id text is x, each with
\* its label: the name of the matching row, the id where there is no
\* matching row or the name is null
MergeOne(r, x, mapa) ==
    LET hits == SelectSeq(mapa, LAMBDA m : m.id = x)
    IN IF Len(hits) = 0 THEN <<Labelled(r, x, x)>>
       ELSE [i \in 1..Len(hits) |->
               Labelled(r, x, IF hits[i].name.k = "null" THEN x ELSE hits[i].name.s)]

RECURSIVE MergeLabels(_, _, _, _)
\* df.merge(mapa, left_on=col, right_on=id, how="left") and the label
\* column: the rows of the first record, then those of the second, ...
MergeLabels(rows, cols, col, mapa) ==
    IF Len(rows) = 0 THEN <<>>
    ELSE IF Len(rows) = 1 THEN MergeOne(rows[1], IdText(rows[1], cols, col), mapa)
    ELSE LET h == Len(rows) \div 2
         IN MergeLabels(SubSeq(rows, 1, h), cols, col, mapa)
            \o MergeLabels(SubSeq(rows, h + 1, Len(rows)), cols, col, mapa)

\* label = raw id for every record
IdLabels(rows, cols, col) ==
    [i \in 1..Len(rows) |-> Labelled(rows[i], IdText(rows[i], cols, col), IdText(rows[i], cols, col))]

\* label = "desconhecida" for every record
UnknownLabels(rows) ==
    [i \in 1..Len(rows) |-> Labelled(rows[i], None, Desconhecida)]

\* the outcome of a labelling: the labelled rows, or an exception
Labels(lrows) ==
    [ok |-> TRUE, rows |-> lrows]

LabelsRaised ==
    [ok |-> FALSE, rows |-> <<>>]

\* the labelling through a reference table whose id and name column are
\* known; selecting one column twice makes the merge key ambiguous and the
\* merge raises
LabelsThrough(rows, cols, col, tbl, id_col, name_col) ==
    IF id_col = name_col THEN LabelsRaised
    ELSE Labels(MergeLabels(rows, cols, col, Mapa(tbl, id_col, name_col)))

\* lines 540-553 of app.py
MainLabels(rows, cols, cm) ==
    IF AgTable.present /\ Len(AgTable.rows) > 0 /\ InCols(cols, cm.agency_id_col)
    THEN IF Truthy(ag_name_col) /\ InCols(AgTable.cols, ag_master_id_col)
         THEN LabelsThrough(rows, cols, cm.agency_id_col, AgTable,
                            ag_master_id_col, ag_name_col)
         ELSE Labels(IdLabels(rows, cols, cm.agency_id_col))
    ELSE IF InCols(cols, cm.agency_id_col)
         THEN Labels(IdLabels(rows, cols, cm.agency_id_col))
         ELSE Labels(UnknownLabels(rows))

-----------------------------------------------------------------------------
(* The trailing window and the rankings *)

\* df["_dt"].max(): NaT when no record has a timestamp
MaxDt(rows) ==
    LET ts == {rows[i].dt : i \in 1..Len(rows)} \ {NaT}
    IN IF ts = {} THEN NaT ELSE MaxOf(ts)

WindowMonths == 6

\* the whole set in place of its last six months
Last6All(rows) ==
    rows

\* tmp[tmp["_dt"] >= max_date - pd.DateOffset(months=6)]: a comparison with
\* NaT is false
Last6(rows) ==
    LET start6 == MonthsBack(MaxDt(rows), WindowMonths)
    IN SelectSeq(rows, LAMBDA r : start6 # NaT /\ r.dt # NaT /\ r.dt >= start6)

TopChart == 10

TopTable == 50

TopClientChart == 20

TopClientTable == 100

\* a ranking as it is shown: what happened, the labelled records it was
\* computed from, the sorted groups, the rows of the chart in their order
\* and the rows of the table
RankView(status, used, rank, chart, table) ==
    [status |-> status, used |-> used, rank |-> rank, chart |-> chart, table |-> table]

NoRank ==
    RankView("none", <<>>, <<>>, <<>>, <<>>)

\* lines 531-567 of app.py; raised says that the computation raised
RankingMain(f, cm, rev, raised) ==
    LET lab == MainLabels(Last6(f.rows), f.cols, cm)
    IN IF raised \/ ~lab.ok THEN RankView("error", <<>>, <<>>, <<>>, <<>>)
       ELSE IF Len(lab.rows) = 0 THEN RankView("nodata", <<>>, <<>>, <<>>, <<>>)
       ELSE LET ranking6 == SortByCountDesc(GroupByLabel(lab.rows), rev)
            IN RankView("ok", lab.rows, ranking6,
                        SortByCountAsc(Head_n(ranking6, TopChart), rev),
                        Head_n(ranking6, TopTable))

\* generate_comprehensive_pdf, lines 237-253: the labels of the PDF ranking
PdfLabels(rows, cols, cm) ==
    IF Truthy(cm.agency_id_col) /\ InCols(cols, cm.agency_id_col)
    THEN IF AgTable.present /\ Len(AgTable.rows) > 0
         THEN IF /\ Truthy(ag_name_col) /\ Truthy(ag_master_id_col)
                 /\ InCols(AgTable.cols, ag_master_id_col)
              THEN LabelsThrough(rows, cols, cm.agency_id_col, AgTable,
                                 ag_master_id_col, ag_name_col)
              ELSE Labels(IdLabels(rows, cols, cm.agency_id_col))
         ELSE Labels(IdLabels(rows, cols, cm.agency_id_col))
    ELSE IF InCols(cols, cm.agency_id_col)
         THEN Labels(IdLabels(rows, cols, cm.agency_id_col))
         ELSE Labels(UnknownLabels(rows))

\* generate_comprehensive_pdf, lines 231-281: the ranking over the whole
\* filtered set, its first ten rows in the table
RankingPdf(f, cm, rev, raised) ==
    LET lab == PdfLabels(f.rows, f.cols, cm)
    IN IF raised \/ ~lab.ok THEN RankView("error", <<>>, <<>>, <<>>, <<>>)
       ELSE LET ranking == SortByCountDesc(GroupByLabel(lab.rows), rev)
            IN IF Len(ranking) = 0 THEN RankView("nodata", <<>>, <<>>, <<>>, <<>>)
               ELSE RankView("ok", lab.rows, ranking, <<>>, Head_n(ranking, TopChart))

-----------------------------------------------------------------------------
(* Monthly volume and weekday seasonality *)

\* an aggregate as it is shown: what happened and its buckets in their order
AggView(status, rows) ==
    [status |-> status, rows |-> rows]

NoAgg ==
    AggView("none", <<>>)

\* strftime("%m/%Y") of a month of 1970
MonthLabel(m) ==
    (IF m < 10 THEN <<"0">> ELSE <<>>) \o Digits(m) \o <<"/", "1", "9", "7", "0">>

\* the records that have a timestamp, each under the label of its month
ByMonth(rows) ==
    LET dated == SelectSeq(rows, LAMBDA r : r.dt # NaT)
    IN [i \in 1..Len(dated) |->
          Labelled(dated[i], None, MonthLabel(MonthOfYearDay(DayOf(dated[i].dt))))]

\* df.groupby("_month")["_amt"].sum().reset_index().sort_values("_month")
MonthlyVolume(rows) ==
    LET lrows  == ByMonth(rows)
        months == SelectSeq([m \in 1..12 |-> m],
                            LAMBDA m : \E i \in 1..Len(lrows) : lrows[i].label = MonthLabel(m))
    IN [i \in 1..Len(months) |-> GroupOf(lrows, MonthLabel(months[i]))]

\* lines 515-527 of app.py, where nothing catches an exception
MonthlyMain(f, raised) ==
    IF Len(f.rows) = 0 THEN AggView("nodata", <<>>)
    ELSE IF raised THEN AggView("raised", <<>>)
    ELSE AggView("ok", MonthlyVolume(f.rows))

\* generate_comprehensive_pdf, lines 196-225
MonthlyPdf(f, raised) ==
    IF raised THEN AggView("error", <<>>)
    ELSE IF Len(f.rows) = 0 \/ Len(MonthlyVolume(f.rows)) = 0 THEN AggView("nodata", <<>>)
    ELSE AggView("ok", MonthlyVolume(f.rows))

\* the names app.py and Tendencias.py map dayofweek 0..6 to
WeekdaysPt ==
    << <<"s", "e", "g", "u", "n", "d", "a", "-", "f", "e", "i", "r", "a">>, <<"t", "e", "r", "ç", "a", "-", "f", "e", "i", "r", "a">>, <<"q", "u", "a", "r", "t", "a", "-", "f", "e", "i", "r", "a">>, <<"q", "u", "i", "n", "t", "a", "-", "f", "e", "i", "r", "a">>,
       <<"s", "e", "x", "t", "a", "-", "f", "e", "i", "r", "a">>, <<"s", "á", "b", "a", "d", "o">>, <<"d", "o", "m", "i", "n", "g", "o">> >>

\* the names Resumo.py maps day_name() to
WeekdaysPtCap ==
    << <<"S", "e", "g", "u", "n", "d", "a", "-", "f", "e", "i", "r", "a">>, <<"T", "e", "r", "ç", "a", "-", "f", "e", "i", "r", "a">>, <<"Q", "u", "a", "r", "t", "a", "-", "f", "e", "i", "r", "a">>, <<"Q", "u", "i", "n", "t", "a", "-", "f", "e", "i", "r", "a">>,
       <<"S", "e", "x", "t", "a", "-", "f", "e", "i", "r", "a">>, <<"S", "á", "b", "a", "d", "o">>, <<"D", "o", "m", "i", "n", "g", "o">> >>

\* df[date].dt.dayofweek.map(names): a record without timestamp has no
\* weekday and groupby leaves it out
ByWeekday(rows, names) ==
    LET dated == SelectSeq(rows, LAMBDA r : r.dt # NaT)
    IN [i \in 1..Len(dated) |-> Labelled(dated[i], None, names[DayOfWeek(dated[i].dt) + 1])]

\* order.index(x) if x in order else other
OrderIndex(order, x, other) ==
    IF x \in RangeOf(order)
    THEN (CHOOSE i \in 1..Len(order) : order[i] = x) - 1
    ELSE other

\* the weekday groups as groupby leaves them, by name
WeeklyUnsorted(rows, names, other) ==
    GroupByLabel(ByWeekday(rows, names))

\* groupby("_weekday_pt") and sort_values("_ord"): lines 573-577 of app.py,
\* lines 88-97 of Tendencias.py
Weekly(rows, names, other) ==
    LET weekly == GroupByLabel(ByWeekday(rows, names))
        ord    == [i \in 1..Len(weekly) |-> OrderIndex(names, weekly[i].label, other)]
    IN Permute(weekly, OrderAsc(ord, FALSE))

\* Resumo.py lines 34-39: groupby(...).sum().reindex(dia_order), a weekday
\* without records has a null volume
WeeklyReindexed(rows, names) ==
    LET lrows == ByWeekday(rows, names)
    IN [i \in 1..Len(names) |->
          IF \E j \in 1..Len(lrows) : lrows[j].label = names[i]
          THEN GroupOf(lrows, names[i])
          ELSE [label |-> names[i], n |-> 0, vol |-> NaN]]

\* lines 571-582 of app.py
WeeklyMain(f, raised) ==
    IF raised THEN AggView("error", <<>>)
    ELSE AggView("ok", Weekly(f.rows, WeekdaysPt, 99))

-----------------------------------------------------------------------------
(* The sub-pages' aggregates *)

PageAgIdKw ==
    << <<"i", "d">>, <<"a", "g", "e", "n", "c", "i", "a">>, <<"b", "r", "a", "n", "c", "h">> >>

PageAgNameKw ==
    << <<"n", "o", "m", "e">>, <<"n", "a", "m", "e">>, <<"d", "e", "s", "c", "r", "i", "c", "a", "o">>, <<"c", "i", "d", "a", "d", "e">>, <<"c", "i", "t", "y">> >>

PageCliNameKw ==
    << <<"n", "o", "m", "e">>, <<"n", "a", "m", "e">>, <<"r", "a", "z", "a", "o">>, <<"r", "a", "z", "ã", "o">>, <<"f", "a", "n", "t", "a", "s", "i", "a">>, <<"c", "l", "i", "e", "n", "t", "e">> >>

PageCliIdKw ==
    << <<"i", "d">>, <<"c", "o", "d", "i", "g", "o">>, <<"c", "ó", "d", "i", "g", "o">>, <<"c", "l", "i", "e", "n", "t", "e">>, <<"c", "u", "s", "t", "o", "m", "e", "r">>, <<"c", "p", "f">>, <<"c", "n", "p", "j">> >>

RECURSIVE FirstColAny(_, _, _)
\* next((c for c in cols if any(k in c.lower() for k in kws)), ...): its
\* position, 0 when there is none
FirstColAny(cols, kws, j) ==
    IF j > Len(cols) THEN 0
    ELSE IF \E i \in 1..Len(kws) : IsSubstr(kws[i], LowerStr(cols[j])) THEN j
    ELSE FirstColAny(cols, kws, j + 1)

\* Agencias.py lines 23-39; col is the session's agency_id_col
AgenciasLabels(rows, cols, col) ==
    IF /\ AgTable.present /\ Len(AgTable.rows) > 0
       /\ col # None /\ InCols(cols, col)
    THEN LET i == FirstColAny(AgTable.cols, PageAgIdKw, 1)
             ag_id_master == IF i = 0 THEN AgTable.cols[1] ELSE AgTable.cols[i]
             j == FirstColAny(AgTable.cols, PageAgNameKw, 1)
         IN IF j # 0
            THEN LabelsThrough(rows, cols, col, AgTable, ag_id_master, AgTable.cols[j])
            ELSE Labels(IdLabels(rows, cols, col))
    ELSE IF InCols(cols, col)
         THEN Labels(IdLabels(rows, cols, col))
         ELSE Labels(UnknownLabels(rows))

\* a page as it is shown: its name, how its run ended ("ok", "nodata" for
\* its message about an empty set, "raised" for an exception nothing
\* caught), its ranking and its weekday aggregate
PageView(name, status, rank, weekly) ==
    [name |-> name, status |-> status, rank |-> rank, weekly |-> weekly]

NoPage ==
    PageView("none", "none", NoRank, <<>>)

\* Agencias.py lines 19-74: the labels are attached to the whole set, the
\* ranking is made of its last six months, the table shows all of it
PageAgencias(f, col, rev) ==
    IF Len(f.rows) = 0 THEN PageView("Agencias", "nodata", NoRank, <<>>)
    ELSE LET lab == AgenciasLabels(f.rows, f.cols, col)
         IN IF ~lab.ok THEN PageView("Agencias", "raised", NoRank, <<>>)
            ELSE LET last6 == Last6(lab.rows)
                 IN IF Len(last6) = 0 THEN PageView("Agencias", "ok", NoRank, <<>>)
                    ELSE LET ranking == SortByCountDesc(GroupByLabel(last6), rev)
                         IN PageView("Agencias", "ok",
                                RankView("ok", last6, ranking,
                                         SortByCountAsc(Head_n(ranking, TopChart), rev),
                                         ranking),
                                <<>>)

\* Clientes.py lines 52-136; col is the session's client_id_col.  When the
\* name and the id resolve to one column, the merge matches the id with
\* itself and the label is the id
ClientesLabels(rows, cols, col) ==
    IF CliTable.present /\ Len(CliTable.rows) > 0
    THEN LET j == FirstColAny(CliTable.cols, PageCliNameKw, 1)
             i == FirstColAny(CliTable.cols, PageCliIdKw, 1)
         IN IF j # 0 /\ i # 0 /\ i # j
            THEN MergeLabels(rows, cols, col,
                             Mapa(CliTable, CliTable.cols[i], CliTable.cols[j]))
            ELSE IdLabels(rows, cols, col)
    ELSE IF InCols(cols, col)
         THEN IdLabels(rows, cols, col)
         ELSE UnknownLabels(rows)

\* Clientes.py lines 142-214: the ranking over the whole set, by volume
PageClientes(f, col, rev) ==
    IF Len(f.rows) = 0 THEN PageView("Clientes", "nodata", NoRank, <<>>)
    ELSE LET lrows == ClientesLabels(f.rows, f.cols, col)
             ranking_clients == SortByVolumeDesc(GroupByLabel(lrows), rev)
         IN PageView("Clientes", "ok",
                RankView("ok", lrows, ranking_clients,
                         SortByVolumeAsc(Head_n(ranking_clients, TopClientChart), rev),
                         Head_n(ranking_clients, TopClientTable)),
                <<>>)

\* Resumo.py lines 18-39
PageResumo(f) ==
    IF Len(f.rows) = 0 THEN PageView("Resumo", "nodata", NoRank, <<>>)
    ELSE PageView("Resumo", "ok", NoRank, WeeklyReindexed(f.rows, WeekdaysPtCap))

\* Tendencias.py lines 21-97
PageTendencias(f) ==
    IF Len(f.rows) = 0 THEN PageView("Tendencias", "nodata", NoRank, <<>>)
    ELSE PageView("Tendencias", "ok", NoRank, Weekly(f.rows, WeekdaysPt, 7))

\* utils/pdf_utils.py, build_pdf_bytes(df, meta_info, filters_info): the
\* totals of column valor and the five largest conta_id, each named through
\* meta_info["agencias_df"].  df["valor"] is read only when df is not empty
\* (line 38), df.groupby("conta_id")["valor"] always (line 51); a column that
\* is not there raises KeyError, and so does naming a conta_id (line 55)
\* without an agencias table with the columns agencia_id and nome_agencia
BuildPdfBytes(f, ag) ==
    IF Len(f.rows) > 0 /\ ~InCols(f.cols, <<"v", "a", "l", "o", "r">>)
    THEN PageView("build_pdf_bytes", "raised", NoRank, <<>>)
    ELSE IF ~InCols(f.cols, <<"c", "o", "n", "t", "a", "_", "i", "d">>) \/ ~InCols(f.cols, <<"v", "a", "l", "o", "r">>)
    THEN PageView("build_pdf_bytes", "raised", NoRank, <<>>)
    ELSE IF /\ Len(f.rows) > 0
            /\ ~(/\ ag.present
                 /\ InCols(ag.cols, <<"a", "g", "e", "n", "c", "i", "a", "_", "i", "d">>)
                 /\ InCols(ag.cols, <<"n", "o", "m", "e", "_", "a", "g", "e", "n", "c", "i", "a">>))
    THEN PageView("build_pdf_bytes", "raised", NoRank, <<>>)
    ELSE PageView("build_pdf_bytes", "ok", NoRank, <<>>)

-----------------------------------------------------------------------------
(* What a run has rendered *)

\* no PDF was asked for
NoPdf ==
    [made |-> FALSE, aprov |-> <<>>, offered |-> FALSE,
     monthly |-> NoAgg, ranking |-> NoRank]

\* nothing rendered yet
\* line 322, the text of st.error as the page shows it (the markdown code
\* quotes around data/ and transacoes.csv are not characters of the message)
FileNotFoundMessage ==
    <<"A", "r", "q", "u", "i", "v", "o", " ", "d", "e", " ", "t", "r", "a", "n", "s", "a", "ç", "õ", "e", "s", " ", "n", "ã", "o", " ", "e", "n", "c", "o", "n", "t", "r", "a", "d", "o", " ", "e", "m", " ", "d", "a", "t", "a", "/", ".", " ", "A", "d", "i", "c", "i", "o", "n", "e", " ", "t", "r", "a", "n", "s", "a", "c", "o", "e", "s", ".", "c", "s", "v", " ", "e", " ", "r", "e", "c", "a", "r", "r", "e", "g", "u", "e", ".">>

NoView ==
    [card |-> <<>>, pdf |-> NoPdf, monthly |-> NoAgg, ranking |-> NoRank,
     weekly |-> NoAgg, page |-> NoPage, alert |-> <<>>]
-----------------------------------------------------------------------------
(* Objects.  heap maps the three frames a run can reach to their values:   *)
(* T is transacoes, D is the frame df is bound to when that is not T, S is *)
(* the frame an earlier run left under session key df_filtered.            *)

Refs ==
    {"T", "D", "S"}

EmptyHeap ==
    [r \in Refs |-> NoFrame]

NoSession ==
    [keys |-> {}, dfRef |-> "none"]

NoProbe ==
    [set |-> FALSE, tx |-> <<>>, dr |-> <<>>, sa |-> <<>>, sc |-> <<>>, out |-> <<>>]

\* what of a frame the canonical set is: its rows and the columns whose
\* values were replaced by their text
CanonView(f) ==
    [rows |-> f.rows, strcols |-> f.strcols]

\* df = transacoes with no copy: df is the object transacoes itself
FilterStartNoCopy(ref) ==
    ref

\* df = transacoes.copy() (line 394): df is bound to a new object
FilterStart(ref) ==
    "D"

\* the filter starting from the frame the session kept, when there is one
FilterInputKept(h, s) ==
    IF s.dfRef # "none" THEN h[s.dfRef] ELSE h["T"]

\* the frame lines 394-424 filter: transacoes
FilterInput(h, s) ==
    h["T"]

\* df[name] = ... for each name of names, on the object ref
AddColumns(h, ref, names) ==
    [h EXCEPT ![ref].extra = @ \cup names]

\* df[col] = df[col].astype(str), on the object ref
StrColumn(h, ref, col) ==
    [h EXCEPT ![ref].strcols = @ \cup {col}]

-----------------------------------------------------------------------------
(* The run of app.py, step by step *)

\* everything but the variables of load_csv_auto and load_data
runVars == <<gcVars, inputVars, pc, colmap, widgetVars, kpi, view, objVars, histVars>>

\* load_csv_auto, lines 89-100, step by step.  The function is entered:
\* `if path is None: return None`
LcEnter ==
    /\ lcPc = "called"
    /\ IF lcFile.path
       THEN lcPc' = "try1" /\ lcRes' = lcRes
       ELSE lcPc' = "returned" /\ lcRes' = "None"
    /\ UNCHANGED <<lcFile, lcTried, ldFiles, ldPc, ldOut, runVars>>

\* the i-th pd.read_csv: its value is returned, or its exception is caught
\* by the except of its try block; the third call is in no try block
LcAttempt(i) ==
    /\ lcTried' = Append(lcTried, ReadConfigs[i])
    /\ LET r == ReadCsv(lcFile, ReadConfigs[i]) IN
         IF r # "raise" THEN lcPc' = "returned" /\ lcRes' = r
         ELSE IF i = 1 THEN lcPc' = "try2" /\ lcRes' = lcRes
         ELSE IF i = 2 THEN lcPc' = "try3" /\ lcRes' = lcRes
         ELSE lcPc' = "raised" /\ lcRes' = lcRes
    /\ UNCHANGED <<lcFile, ldFiles, ldPc, ldOut, runVars>>

\* line 95
LcReadComma ==
    lcPc = "try1" /\ LcAttempt(1)

\* line 98
LcReadSemicolon ==
    lcPc = "try2" /\ LcAttempt(2)

\* line 100
LcReadLatin1 ==
    lcPc = "try3" /\ LcAttempt(3)

\* load_csv_auto called on its own, on any path or None
CallLoadCsvAuto ==
    /\ ldPc = "idle" /\ lcPc = "idle"
    /\ lcFile' \in Files
    /\ lcPc' = "called"
    /\ UNCHANGED <<lcTried, lcRes, ldFiles, ldPc, ldOut, runVars>>

\* load_data, lines 102-112: the dict files is built
LdStart ==
    /\ ldPc = "idle" /\ lcPc = "idle"
    /\ ldPc' = "loop"
    /\ UNCHANGED <<lcFile, lcPc, lcTried, lcRes, ldFiles, ldOut, runVars>>

\* line 111: out[k] = load_csv_auto(p) if p is not None else None
LdIter ==
    /\ ldPc = "loop"
    /\ Len(ldOut) < Len(FileKeys)
    /\ LET p == ldFiles[Len(ldOut) + 1] IN
         IF p.path
         THEN /\ lcFile' = p
              /\ lcPc' = "called"
              /\ lcTried' = <<>>
              /\ lcRes' = "unset"
              /\ ldPc' = "call"
              /\ ldOut' = ldOut
         ELSE /\ ldOut' = Append(ldOut, "None")
              /\ UNCHANGED <<lcFile, lcPc, lcTried, lcRes, ldPc>>
    /\ UNCHANGED <<ldFiles, runVars>>

\* load_csv_auto is left: its value goes to out[k], its exception leaves
\* load_data as well
LdResume ==
    /\ ldPc = "call"
    /\ lcPc \in {"returned", "raised"}
    /\ IF lcPc = "returned"
       THEN ldOut' = Append(ldOut, lcRes) /\ ldPc' = "loop" /\ lcPc' = "idle"
       ELSE ldOut' = ldOut /\ ldPc' = "raised" /\ lcPc' = lcPc
    /\ UNCHANGED <<lcFile, lcTried, lcRes, ldFiles, runVars>>

\* line 112
LdReturn ==
    /\ ldPc = "loop"
    /\ Len(ldOut) = Len(FileKeys)
    /\ ldPc' = "returned"
    /\ UNCHANGED <<lcFile, lcPc, lcTried, lcRes, ldFiles, ldOut, runVars>>

\* what find_file and pd.read_csv give for a table of the run: no file, a
\* file that reads, or a file no configuration reads
SessionFile(k, tbl) ==
    IF k \in badFiles THEN Unreadable
    ELSE IF tbl.present THEN Readable
    ELSE NoPath

SessionFiles ==
    << SessionFile("transacoes", rawTx), SessionFile("agencias", agencias),
       SessionFile("clientes", clientes) >>

LoadNoStop ==
    /\ pc = "start"
    /\ pc' = IF LoadDataRaises(SessionFiles) THEN "error" ELSE "normalize"
    /\ UNCHANGED <<gcVars, lcVars, inputVars, colmap, widgetVars, kpi, view, objVars, histVars>>

\* lines 316-324: load_data(), whose exception ends the run; st.error and
\* st.stop without a transactions table
Load ==
    /\ pc = "start"
    /\ IF LoadDataRaises(SessionFiles)
       THEN pc' = "error" /\ view' = view
       ELSE IF rawTx.present
       THEN pc' = "normalize" /\ view' = view
       ELSE pc' = "halted" /\ view' = [view EXCEPT !.alert = FileNotFoundMessage]
    /\ UNCHANGED <<gcVars, lcVars, inputVars, colmap, widgetVars, kpi, objVars, histVars>>

\* lines 326-349
DoNormalize ==
    /\ pc = "normalize"
    /\ colmap' = GuessCols(StripTable(rawTx))
    /\ heap' = [heap EXCEPT !["T"] = Normalize(rawTx, tzaware)]
    /\ canonFirst' = IF canonFirst.present THEN canonFirst ELSE Normalize(rawTx, tzaware)
    /\ pc' = "sidebar"
    /\ UNCHANGED <<gcVars, lcVars, inputVars, widgetVars, kpi, view, dfRef, session, probe>>

\* lines 351-391 and the button of line 486: the widgets return what the user set
SidebarFrom(ranges, ags, clis, clicks) ==
    /\ pc = "sidebar"
    /\ date_range' \in {dr \in ranges : ValidRange(dr)}
    /\ sel_ag' \in ags
    /\ sel_client' \in clis
    /\ pdf_click' \in clicks
    /\ pc' = "filter"
    /\ UNCHANGED <<gcVars, lcVars, inputVars, colmap, kpi, view, objVars, histVars>>

Sidebar ==
    SidebarFrom(DateRanges, agency_options(heap["T"], colmap), client_options, BOOLEAN)

\* lines 393-424; record says whether the history variable probe keeps the
\* first application
DoFilterRec(record) ==
    /\ pc = "filter"
    /\ LET res == ApplyFilters(FilterInput(heap, session), colmap,
                               date_range, sel_ag, sel_client)
           ref == IF res.masked THEN "D" ELSE FilterStart("T")
       IN IF res.ok
          THEN /\ heap' = IF ref = "D"
                          THEN [heap EXCEPT !["D"] =
                                   [FilterInput(heap, session) EXCEPT !.rows = res.rows]]
                          ELSE heap
               /\ dfRef' = ref
               /\ pc' = "save"
               /\ probe' = IF probe.set \/ ~record THEN probe
                           ELSE [set |-> TRUE, tx |-> heap["T"].rows, dr |-> date_range,
                                 sa |-> sel_ag, sc |-> sel_client, out |-> res.rows]
          ELSE /\ pc' = "error"
               /\ UNCHANGED <<heap, dfRef, probe>>
    /\ UNCHANGED <<gcVars, lcVars, inputVars, colmap, widgetVars, kpi, view, session, canonFirst>>

DoFilter ==
    DoFilterRec(FALSE)

DoFilterProbe ==
    DoFilterRec(TRUE)

\* lines 426-435
Save ==
    /\ pc = "save"
    /\ session' = [keys  |-> session.keys \cup {"df_filtered", "meta_info"},
                   dfRef |-> dfRef]
    /\ heap' = IF dfRef # "S" THEN [heap EXCEPT !["S"] = NoFrame] ELSE heap
    /\ pc' = "kpi"
    /\ UNCHANGED <<gcVars, lcVars, inputVars, colmap, widgetVars, kpi, view, dfRef, histVars>>

\* lines 441-468
ComputeKpis ==
    /\ pc = "kpi"
    /\ kpi' = Kpis(heap[dfRef].rows)
    /\ view' = [view EXCEPT !.card = AprovDisplay(Kpis(heap[dfRef].rows))]
    /\ pc' = "left"
    /\ UNCHANGED <<gcVars, lcVars, inputVars, colmap, widgetVars, objVars, histVars>>

\* lines 475-511 with the button not pressed
LeftColumn ==
    /\ pc = "left"
    /\ ~pdf_click
    /\ pc' = "right"
    /\ UNCHANGED <<gcVars, lcVars, inputVars, colmap, widgetVars, kpi, view, objVars, histVars>>

\* the aggregates whose computation may raise
Aggregates ==
    {"monthly", "ranking", "weekday"}

\* at most one aggregate fails in a run
FaultSets ==
    {{}} \cup {{a} : a \in Aggregates}

\* generate_comprehensive_pdf (lines 138-314), which works on copies of df,
\* and the download button of lines 498-503, whose file name needs start and
\* end: without a complete date range the PDF is made and not offered
PdfDocument(k, dr, f, cm, rev, faults) ==
    [made    |-> TRUE,
     aprov   |-> AprovDisplay(k),
     offered |-> Len(dr) = 2,
     monthly |-> MonthlyPdf(f, "monthly" \in faults),
     ranking |-> RankingPdf(f, cm, rev, "ranking" \in faults)]

\* lines 486-509
ExportPdfWith(faultsets, revs) ==
    /\ pc = "left"
    /\ pdf_click
    /\ \E faults \in faultsets, rev \in revs :
         view' = [view EXCEPT !.pdf = PdfDocument(kpi, date_range, heap[dfRef],
                                                  colmap, rev, faults)]
    /\ pc' = "right"
    /\ UNCHANGED <<gcVars, lcVars, inputVars, colmap, widgetVars, kpi, objVars, histVars>>

\* the export with at most one failing aggregate (the order of equal keys
\* is the subject of ExportPdfTies)
ExportPdf ==
    ExportPdfWith(FaultSets, {FALSE})

\* the export when nothing raises
ExportPdfQuiet ==
    ExportPdfWith({{}}, {FALSE})

\* lines 513-583: the charts write _month and _weekday_pt into df itself.
\* faults are the aggregates whose first statement raises in this run, rev
\* is how the sort treats equal keys.  Nothing catches an exception of the
\* monthly volume: the run ends there.
RightColumnWith(faultsets, revs) ==
    /\ pc = "right"
    /\ \E faults \in faultsets, rev \in revs :
         LET f == heap[dfRef]
             m == MonthlyMain(f, "monthly" \in faults)
         IN IF m.status = "raised"
            THEN /\ view' = [view EXCEPT !.monthly = m]
                 /\ heap' = heap
                 /\ pc' = "error"
            ELSE /\ view' = [view EXCEPT
                               !.monthly = m,
                               !.ranking = RankingMain(f, colmap, rev, "ranking" \in faults),
                               !.weekly  = WeeklyMain(f, "weekday" \in faults)]
                 /\ heap' = AddColumns(heap, dfRef,
                               (IF Len(f.rows) > 0 THEN {"_month"} ELSE {})
                               \cup (IF "weekday" \in faults THEN {} ELSE {"_weekday_pt"}))
                 /\ pc' = "compat"
    /\ UNCHANGED <<gcVars, lcVars, inputVars, colmap, widgetVars, kpi, dfRef, session, histVars>>

\* the right column with at most one failing aggregate
RightColumn ==
    RightColumnWith(FaultSets, {FALSE})

\* the right column when nothing raises
RightColumnQuiet ==
    RightColumnWith({{}}, {FALSE})

CompatKeys ==
    {"amount_col", "date_col", "agency_id_col", "client_id_col", "agencias_df", "clientes_df"}

\* lines 585-592
SaveCompatKeys ==
    /\ pc = "compat"
    /\ session' = [session EXCEPT !.keys = @ \cup CompatKeys]
    /\ pc' = "done"
    /\ UNCHANGED <<gcVars, lcVars, inputVars, colmap, widgetVars, kpi, view, heap, dfRef, histVars>>

\* the next interaction: the script runs again from its first line.  load_data
\* hands out a new copy of the cached tables; the frame the session holds
\* lives on as S.
Rerun ==
    /\ pc \in {"done", "error"}
    /\ pc' = "start"
    /\ heap' = [r \in Refs |->
                   IF r = "S" /\ session.dfRef # "none" THEN heap[session.dfRef]
                   ELSE NoFrame]
    /\ session' = [session EXCEPT !.dfRef = IF @ = "none" THEN "none" ELSE "S"]
    /\ dfRef' = "none"
    /\ kpi' = NoKpi
    /\ view' = NoView
    /\ colmap' = NoCols
    /\ date_range' = <<>>
    /\ sel_ag' = Todas
    /\ sel_client' = Todos
    /\ pdf_click' = FALSE
    /\ UNCHANGED <<gcVars, lcVars, inputVars, histVars>>

-----------------------------------------------------------------------------
(* The sub-pages, each a script run of its own between two runs of app.py *)

\* the column names app.py stored under the session keys
SessionCols ==
    GuessCols(StripTable(rawTx))

PageReady ==
    /\ pc \in {"done", "error", "halted"}
    /\ "df_filtered" \in session.keys

\* the keys a page reads with st.session_state[...] after its guard on
\* df_filtered: a key that is not there raises KeyError
AgenciasKeys ==
    {"amount_col", "agency_id_col", "agencias_df", "date_col"}

ResumoKeys ==
    {"date_col", "amount_col"}

TendenciasKeys ==
    {"date_col", "amount_col"}

ClientesKeys ==
    {"amount_col", "clientes_df"}

\* the page ends in the KeyError of its first lines
PageKeyError(name) ==
    /\ view' = [view EXCEPT !.page = PageView(name, "raised", NoRank, <<>>)]
    /\ heap' = heap

\* pages/Agencias.py: what the page shows, and what it writes into the
\* session's frame (lines 31 and 35-39)
VisitAgencias ==
    /\ PageReady
    /\ IF ~(AgenciasKeys \subseteq session.keys) THEN PageKeyError("Agencias")
       ELSE
       LET f   == heap[session.dfRef]
           col == SessionCols.agency_id_col
       IN /\ heap' =
               IF Len(f.rows) = 0 THEN heap
               ELSE IF /\ AgTable.present /\ Len(AgTable.rows) > 0
                       /\ col # None /\ InCols(f.cols, col)
                       /\ FirstColAny(AgTable.cols, PageAgNameKw, 1) # 0
                    THEN StrColumn(heap, session.dfRef, col)
                    ELSE AddColumns(heap, session.dfRef, {"agencia_label"})
          /\ \E rev \in BOOLEAN :
               view' = [view EXCEPT !.page = PageAgencias(f, col, rev)]
    /\ UNCHANGED <<gcVars, lcVars, inputVars, pc, colmap, widgetVars, kpi, dfRef, session, histVars>>

\* pages/Resumo.py lines 14-47
VisitResumo ==
    /\ PageReady
    /\ IF ~(ResumoKeys \subseteq session.keys) THEN PageKeyError("Resumo")
       ELSE
       /\ heap' = IF Len(heap[session.dfRef].rows) = 0 THEN heap
                  ELSE AddColumns(heap, session.dfRef, {"dia_semana_en", "dia_semana_pt", "mes"})
       /\ view' = [view EXCEPT !.page = PageResumo(heap[session.dfRef])]
    /\ UNCHANGED <<gcVars, lcVars, inputVars, pc, colmap, widgetVars, kpi, dfRef, session, histVars>>

\* pages/Tendencias.py lines 15-97
VisitTendencias ==
    /\ PageReady
    /\ IF ~(TendenciasKeys \subseteq session.keys) THEN PageKeyError("Tendencias")
       ELSE
       /\ heap' = IF Len(heap[session.dfRef].rows) = 0 THEN heap
                  ELSE AddColumns(heap, session.dfRef, {"_month", "_month_period", "_weekday_pt"})
       /\ view' = [view EXCEPT !.page = PageTendencias(heap[session.dfRef])]
    /\ UNCHANGED <<gcVars, lcVars, inputVars, pc, colmap, widgetVars, kpi, dfRef, session, histVars>>

\* pages/Clientes.py: the page works on a copy of the session's frame
\* (line 13)
VisitClientes ==
    /\ PageReady
    /\ IF ~(ClientesKeys \subseteq session.keys) THEN PageKeyError("Clientes")
       ELSE
       /\ heap' = heap
       /\ \E rev \in BOOLEAN :
            view' = [view EXCEPT !.page = PageClientes(heap[session.dfRef],
                                                       SessionCols.client_id_col, rev)]
    /\ UNCHANGED <<gcVars, lcVars, inputVars, pc, colmap, widgetVars, kpi, dfRef, session, histVars>>

\* build_pdf_bytes is called by no page.  The call its docstring describes:
\* on the filtered data and the meta_info the session holds
CallBuildPdfBytes ==
    /\ PageReady
    /\ "meta_info" \in session.keys
    /\ view' = [view EXCEPT !.page = BuildPdfBytes(heap[session.dfRef], AgTable)]
    /\ UNCHANGED <<gcVars, lcVars, inputVars, pc, colmap, widgetVars, kpi, objVars, histVars>>

-----------------------------------------------------------------------------
(* Input tables.  A transactions row is written once, as its date, amount, *)
(* branch, client and status cells; a layout names the columns of a file   *)
(* and says which of the five each holds.                                  *)

MaxNormRows == 3

MaxFilterRows == 2

MaxKpiRows == 3

MaxGcCols == 2

MaxGcKw == 2

MakeTable(layout, semrows) ==
    [present |-> TRUE,
     cols    |-> [j \in 1..Len(layout) |-> layout[j].name],
     rows    |-> [i \in 1..Len(semrows) |->
                    [j \in 1..Len(layout) |-> semrows[i][layout[j].field]]]]

Col(name, field) ==
    [name |-> name, field |-> field]

LFull ==
    << Col(<<" ", "d", "a", "t", "a">>, 1), Col(<<"v", "a", "l", "o", "r">>, 2), Col(<<"a", "g", "e", "n", "c", "i", "a">>, 3), Col(<<"c", "l", "i", "e", "n", "t", "e">>, 4),
       Col(<<"s", "t", "a", "t", "u", "s", " ">>, 5) >>

LNoStatus ==
    << Col(<<"a", "g", "e", "n", "c", "i", "a">>, 3), Col(<<"d", "a", "t", "a">>, 1), Col(<<"v", "a", "l", "o", "r">>, 2), Col(<<"c", "l", "i", "e", "n", "t", "e">>, 4) >>

LNoAmount ==
    << Col(<<"a", "g", "e", "n", "c", "i", "a">>, 3), Col(<<"d", "a", "t", "a">>, 1), Col(<<"c", "l", "i", "e", "n", "t", "e">>, 4), Col(<<"s", "t", "a", "t", "u", "s">>, 5) >>

LNoDate ==
    << Col(<<"o", "b", "s">>, 5), Col(<<"v", "a", "l", "o", "r">>, 2) >>

LBlank ==
    << Col(<<" ">>, 3), Col(<<"v", "a", "l", "o", "r">>, 2) >>

Layouts ==
    {LFull, LNoStatus, LNoAmount, LNoDate, LBlank}

NormRows ==
    { << DateCell(2, <<"d", "1", "a">>), NumCell(100, <<"1", "0", "0">>), NumCell(7, <<"7">>), NumCell(1, <<"1">>),
         TxtCell(<<"A", "p", "r", "o", "v", "a", "d", "o">>) >>,
      << TxtCell(<<"a", "b", "c">>), NullCell, NumCell(7, <<"7">>), NumCell(2, <<"2">>),
         TxtCell(<<"n", "e", "g", "a", "d", "o">>) >>,
      << DateCell(5, <<"d", "2", "b">>), NumCell(50, <<"5", "0">>), NumCell(8, <<"8">>), NumCell(1, <<"1">>),
         TxtCell(<<"O", "K">>) >>,
      << DateCell(3, <<"d", "1", "b">>), TxtCell(<<"x">>), NumCell(8, <<"8">>), NumCell(2, <<"2">>),
         TxtCell(<<"p", "e", "n", "d", "e", "n", "t", "e">>) >> }

NormTables ==
    {MakeTable(l, r) : l \in Layouts, r \in SeqUpTo(NormRows, MaxNormRows)}

RowA ==
    << DateCell(2, <<"d", "1", "a">>), NumCell(100, <<"1", "0", "0">>), NumCell(7, <<"7">>), NumCell(1, <<"1">>),
       TxtCell(<<"o", "k">>) >>

RowB ==
    << DateCell(5, <<"d", "2", "b">>), NullCell, NumCell(7, <<"7">>), NumCell(2, <<"2">>),
       TxtCell(<<"n", "e", "g", "a", "d", "o">>) >>

RowC ==
    << TxtCell(<<"a", "b", "c">>), NumCell(50, <<"5", "0">>), NumCell(8, <<"8">>), NumCell(1, <<"1">>),
       TxtCell(<<"o", "k">>) >>

FilterRows ==
    {RowA, RowB, RowC}

\* the transactions files the filter is tried on hold at least one row
FilterTables ==
    {MakeTable(LFull, r) : r \in SeqUpTo(FilterRows, MaxFilterRows) \ {<<>>}}

KpiRows ==
    { << DateCell(2, <<"d", "1", "a">>), NumCell(100, <<"1", "0", "0">>), NumCell(7, <<"7">>), NumCell(1, <<"1">>),
         TxtCell(<<"o", "k">>) >>,
      << DateCell(2, <<"d", "1", "a">>), NullCell, NumCell(7, <<"7">>), NumCell(1, <<"1">>),
         TxtCell(<<"n", "e", "g", "a", "d", "o">>) >>,
      << DateCell(2, <<"d", "1", "a">>), NumCell(50, <<"5", "0">>), NumCell(7, <<"7">>), NumCell(1, <<"1">>),
         TxtCell(<<"o", "k">>) >> }

KpiTables ==
    {MakeTable(LFull, r) : r \in SeqUpTo(KpiRows, MaxKpiRows)}

RefTable(cols, rows) ==
    [present |-> TRUE, cols |-> cols, rows |-> rows]

Centro ==
    <<"C", "e", "n", "t", "r", "o">>

Norte ==
    <<"N", "o", "r", "t", "e">>

AgA ==
    RefTable(<< <<"i", "d">>, <<"n", "o", "m", "e">> >>,
             << <<NumCell(7, <<"7">>), TxtCell(Centro)>>, <<NumCell(8, <<"8">>), TxtCell(Norte)>> >>)

AgB ==
    RefTable(<< <<"i", "d">>, <<"n", "o", "m", "e">> >>,
             << <<NumCell(7, <<"7">>), TxtCell(Centro)>>, <<NumCell(8, <<"8">>), TxtCell(Centro)>> >>)

AgC ==
    RefTable(<< <<"c", "o", "d", "_", "a", "g", "e", "n", "c", "i", "a">>, <<"n", "o", "m", "e">>, <<"c", "i", "d", "a", "d", "e">> >>,
             << <<NumCell(7, <<"7">>), TxtCell(Centro), TxtCell(<<"R", "e", "c", "i", "f", "e">>)>> >>)

CliA ==
    RefTable(<< <<"i", "d">>, <<"n", "o", "m", "e">> >>,
             << <<NumCell(1, <<"1">>), TxtCell(<<"A", "n", "a">>)>>, <<NumCell(2, <<"2">>), TxtCell(<<"B", "i", "a">>)>> >>)

CliB ==
    RefTable(<< <<"c", "o", "d">>, <<"c", "l", "i", "e", "n", "t", "e">> >>,
             << <<NumCell(1, <<"1">>), TxtCell(<<"A", "n", "a">>)>>, <<NumCell(2, <<"2">>), TxtCell(<<"B", "i", "a">>)>> >>)

RefPairs ==
    { <<NoTable, NoTable>>, <<AgA, CliA>>, <<AgB, CliB>>, <<AgC, NoTable>> }

-----------------------------------------------------------------------------
(* Initial states and specifications *)

IdleGuess ==
    /\ gcDf = NoTable
    /\ gcKw = <<>>
    /\ gcRes = None
    /\ gcPc = "idle"

IdleLoad ==
    /\ lcFile = NoPath
    /\ lcPc = "idle"
    /\ lcTried = <<>>
    /\ lcRes = "unset"
    /\ ldFiles = <<>>
    /\ ldPc = "idle"
    /\ ldOut = <<>>

\* the state in which app.py starts to run for the first time
StartRun ==
    /\ pc = "start"
    /\ colmap = NoCols
    /\ date_range = <<>>
    /\ sel_ag = Todas
    /\ sel_client = Todos
    /\ pdf_click = FALSE
    /\ kpi = NoKpi
    /\ view = NoView
    /\ heap = EmptyHeap
    /\ dfRef = "none"
    /\ session = NoSession
    /\ canonFirst = NoFrame
    /\ probe = NoProbe

(* guess_col alone: one call on inputs drawn from bounded sets *)

GcNames ==
    { <<"D", "a", "t", "a">>, <<"c", "i", "d", "a", "d", "e">>, <<"i", "d">>, <<"v", "a", "l", "o", "r">> }

GcKeywords ==
    { <<"d", "a", "t", "a">>, <<"i", "d">>, <<"z", "z">>, <<"I", "D">> }

GcTables ==
    {NoTable} \cup
    {[present |-> TRUE, cols |-> c, rows |-> <<>>] : c \in SeqUpTo(GcNames, MaxGcCols)}

InitGuess ==
    /\ gcDf \in GcTables
    /\ gcKw \in SeqUpTo(GcKeywords, MaxGcKw)
    /\ gcRes = None
    /\ gcPc = "call"
    /\ rawTx = NoTable /\ agencias = NoTable /\ clientes = NoTable /\ tzaware = FALSE
    /\ IdleLoad
    /\ badFiles = {}
    /\ StartRun

CallGuessCol ==
    /\ gcPc = "call"
    /\ gcRes' = guess_col(gcDf, gcKw)
    /\ gcPc' = "done"
    /\ UNCHANGED <<gcDf, gcKw, lcVars, inputVars, pc, colmap, widgetVars, kpi, view, objVars, histVars>>

NextGuess ==
    CallGuessCol

SpecGuess ==
    InitGuess /\ [][NextGuess]_vars

(* normalization: every layout, the rows in every order *)

InitNorm ==
    /\ IdleGuess
    /\ IdleLoad
    /\ badFiles = {}
    /\ rawTx \in NormTables \cup {NoTable}
    /\ agencias = NoTable /\ clientes = NoTable
    /\ tzaware \in BOOLEAN
    /\ StartRun

NextNorm ==
    \/ Load
    \/ DoNormalize

SpecNorm ==
    InitNorm /\ [][NextNorm]_vars

(* the filter as a function of records, selection and reference tables: the *)
(* selection ranges over more than the two selectors offer                  *)

InitFilter ==
    /\ IdleGuess
    /\ IdleLoad
    /\ badFiles = {}
    /\ rawTx \in FilterTables
    /\ \E p \in RefPairs : agencias = p[1] /\ clientes = p[2]
    /\ tzaware \in BOOLEAN
    /\ StartRun

SidebarAny ==
    SidebarFrom(DateRanges,
                agency_options(heap["T"], colmap) \cup {Norte, <<"7">>},
                client_options \cup {<<"A", "n", "a">>, <<"1">>},
                {FALSE})

NextFilter ==
    \/ Load
    \/ DoNormalize
    \/ SidebarAny
    \/ DoFilter

SpecFilter ==
    InitFilter /\ [][NextFilter]_vars

(* the KPIs of a filtered set *)

InitKpi ==
    /\ IdleGuess
    /\ IdleLoad
    /\ badFiles = {}
    /\ rawTx \in KpiTables
    /\ agencias = NoTable /\ clientes = NoTable
    /\ tzaware = TRUE
    /\ StartRun

SidebarKpi ==
    SidebarFrom(DateRanges, agency_options(heap["T"], colmap), client_options, BOOLEAN)

NextKpi ==
    \/ Load
    \/ DoNormalize
    \/ SidebarKpi
    \/ DoFilter
    \/ Save
    \/ ComputeKpis
    \/ LeftColumn
    \/ ExportPdfQuiet

SpecKpi ==
    InitKpi /\ [][NextKpi]_vars

(* rankings and weekday aggregates: records of several months, weekdays, *)
(* branches and clients, and one table with more groups than a view shows  *)

MaxRankRows == 2

\* the sequences of up to n different elements of S
InjSeqUpTo(S, n) ==
    {q \in SeqUpTo(S, n) : \A i, j \in 1..Len(q) : i # j => q[i] # q[j]}

\* Sunday 4 January 1970
RowJan ==
    << DateCell(6, <<"0", "4", "/", "0", "1", "/", "1", "9", "7", "0">>), NumCell(100, <<"1", "0", "0">>), NumCell(7, <<"7">>), NumCell(1, <<"1">>),
       TxtCell(<<"o", "k">>) >>

\* Monday 31 August 1970 at noon
RowAug ==
    << DateCell(485, <<"3", "1", "/", "0", "8", "/", "1", "9", "7", "0", " ", "1", "2", ":", "0", "0">>), NumCell(50, <<"5", "0">>), NumCell(8, <<"8">>), NumCell(2, <<"2">>),
       TxtCell(<<"o", "k">>) >>

\* Saturday 28 February 1970 at noon, six months before RowAug
RowFebNoon ==
    << DateCell(117, <<"2", "8", "/", "0", "2", "/", "1", "9", "7", "0", " ", "1", "2", ":", "0", "0">>), NumCell(30, <<"3", "0">>), NumCell(7, <<"7">>), NumCell(1, <<"1">>),
       TxtCell(<<"n", "e", "g", "a", "d", "o">>) >>

\* Saturday 28 February 1970 at 00:00, with no amount
RowFeb ==
    << DateCell(116, <<"2", "8", "/", "0", "2", "/", "1", "9", "7", "0">>), NullCell, NumCell(8, <<"8">>), NumCell(2, <<"2">>),
       TxtCell(<<"o", "k">>) >>

\* a record whose date does not parse
RowNoDate ==
    << TxtCell(<<"a", "b", "c">>), NumCell(70, <<"7", "0">>), NumCell(8, <<"8">>), NumCell(1, <<"1">>),
       TxtCell(<<"o", "k">>) >>

RankRows ==
    {RowJan, RowAug, RowFebNoon, RowFeb, RowNoDate}

BigRows == 103

BigBranches == 51

BigClients == 101

\* what the first BigClients records of the big table are worth at least
BigAmount == 1000

\* BigRows records of one day, of BigBranches branches and BigClients
\* clients; the records beyond the first BigClients ones are worth 1
BigTable ==
    MakeTable(LFull,
        [i \in 1..BigRows |->
            << DateCell(2, <<"0", "2", "/", "0", "1", "/", "1", "9", "7", "0">>),
               IF i <= BigClients THEN NumCell(BigAmount + i, Digits(BigAmount + i))
               ELSE NumCell(1, <<"1">>),
               NumCell(100 + (i % BigBranches), Digits(100 + (i % BigBranches))),
               NumCell(i % BigClients, Digits(i % BigClients)), TxtCell(<<"o", "k">>) >>])

\* a file with the column names build_pdf_bytes reads
LConta ==
    << Col(<<"d", "a", "t", "a">>, 1), Col(<<"v", "a", "l", "o", "r">>, 2), Col(<<"a", "g", "e", "n", "c", "i", "a", "_", "i", "d">>, 3), Col(<<"c", "o", "n", "t", "a", "_", "i", "d">>, 4) >>

RankTables ==
    {MakeTable(LFull, r) : r \in InjSeqUpTo(RankRows, MaxRankRows)}
    \cup {MakeTable(LConta, <<RowJan>>)}

\* reference tables that exist and hold no row
AgEmpty ==
    RefTable(<< <<"i", "d">>, <<"n", "o", "m", "e">> >>, <<>>)

CliEmpty ==
    RefTable(<< <<"i", "d">>, <<"n", "o", "m", "e">> >>, <<>>)

RankRefPairs ==
    { <<NoTable, NoTable>>, <<AgA, CliA>>, <<AgC, CliB>>, <<AgEmpty, CliEmpty>> }

InitRank ==
    /\ IdleGuess
    /\ IdleLoad
    /\ badFiles = {}
    /\ \/ /\ rawTx \in RankTables
          /\ \E p \in RankRefPairs : agencias = p[1] /\ clientes = p[2]
       \/ /\ rawTx = BigTable
          /\ agencias = NoTable /\ clientes = NoTable
    /\ tzaware = TRUE
    /\ StartRun

\* the branches a user picks in these runs
RankChoices ==
    {Todas, <<"7">>, <<"8">>, Centro, Norte, <<"1", "0", "0">>}

SidebarRank ==
    SidebarFrom({<<>>}, agency_options(heap["T"], colmap) \cap RankChoices,
                {Todos}, BOOLEAN)

\* the export when nothing raises, the sort free in its ties
ExportPdfTies ==
    ExportPdfWith({{}}, BOOLEAN)

\* the right column when nothing raises, the sort free in its ties
RightColumnTies ==
    RightColumnWith({{}}, BOOLEAN)

NextRank ==
    \/ Load
    \/ DoNormalize
    \/ SidebarRank
    \/ DoFilter
    \/ Save
    \/ ComputeKpis
    \/ LeftColumn
    \/ ExportPdfTies
    \/ RightColumnTies
    \/ SaveCompatKeys
    \/ VisitAgencias
    \/ VisitResumo
    \/ VisitTendencias
    \/ VisitClientes
    \/ CallBuildPdfBytes

SpecRank ==
    InitRank /\ [][NextRank]_vars

(* a session: runs of app.py, one per interaction, and visits to the pages *)

SessionTables ==
    { MakeTable(LFull, <<RowA, RowB, RowC>>), MakeTable(LFull, <<RowC>>) }

\* the date ranges a session tries: none, a start alone, the default, day 1
SessionRanges(f) ==
    {<<>>, DefaultRange(f), <<1, 1>>}

SidebarSession ==
    SidebarFrom(SessionRanges(heap["T"]), agency_options(heap["T"], colmap),
                client_options, BOOLEAN)

SessionRefPairs ==
    { <<NoTable, NoTable>>, <<AgA, CliA>> }

\* the files of data/ that may be unreadable, one at a time
BadFileSets ==
    {{}} \cup {{FileKeys[i]} : i \in DOMAIN FileKeys}

InitSession ==
    /\ IdleGuess
    /\ IdleLoad
    /\ badFiles \in BadFileSets
    /\ rawTx \in SessionTables \cup {NoTable}
    /\ \E p \in SessionRefPairs : agencias = p[1] /\ clientes = p[2]
    /\ tzaware \in BOOLEAN
    /\ StartRun

Init ==
    InitSession

SidebarPure ==
    SidebarFrom(SessionRanges(heap["T"]), agency_options(heap["T"], colmap),
                client_options, {FALSE})

\* the filter applied again and again, the first application remembered
NextPure ==
    \/ Load
    \/ DoNormalize
    \/ SidebarPure
    \/ DoFilterProbe
    \/ Save
    \/ ComputeKpis
    \/ LeftColumn
    \/ RightColumnQuiet
    \/ SaveCompatKeys
    \/ Rerun

SpecPure ==
    InitSession /\ [][NextPure]_vars

Next ==
    \/ Load
    \/ DoNormalize
    \/ SidebarSession
    \/ DoFilter
    \/ Save
    \/ ComputeKpis
    \/ LeftColumn
    \/ ExportPdf
    \/ RightColumn
    \/ SaveCompatKeys
    \/ Rerun
    \/ VisitAgencias
    \/ VisitResumo
    \/ VisitTendencias
    \/ VisitClientes

Spec ==
    Init /\ [][Next]_vars

(* the rankings with a branch table that gives one id two names *)

\* branch 7 under two display names, branch 8 under one
AgDup ==
    RefTable(<< <<"i", "d">>, <<"n", "o", "m", "e">> >>,
             << <<NumCell(7, <<"7">>), TxtCell(Centro)>>, <<NumCell(7, <<"7">>), TxtCell(<<"M", "a", "t", "r", "i", "z">>)>>,
                <<NumCell(8, <<"8">>), TxtCell(Norte)>> >>)

InitDup ==
    /\ IdleGuess
    /\ IdleLoad
    /\ badFiles = {}
    /\ rawTx \in RankTables
    /\ agencias = AgDup /\ clientes = CliA
    /\ tzaware = TRUE
    /\ StartRun

SpecDup ==
    InitDup /\ [][NextRank]_vars

-----------------------------------------------------------------------------
(* load_data and load_csv_auto alone, on every combination of three paths *)

InitLoad ==
    /\ IdleGuess
    /\ rawTx = NoTable /\ agencias = NoTable /\ clientes = NoTable /\ tzaware = FALSE
    /\ badFiles = {}
    /\ StartRun
    /\ lcFile = NoPath
    /\ lcPc = "idle"
    /\ lcTried = <<>>
    /\ lcRes = "unset"
    /\ ldFiles \in [DOMAIN FileKeys -> Files]
    /\ ldPc = "idle"
    /\ ldOut = <<>>

NextLoad ==
    \/ CallLoadCsvAuto
    \/ LcEnter
    \/ LcReadComma
    \/ LcReadSemicolon
    \/ LcReadLatin1
    \/ LdStart
    \/ LdIter
    \/ LdResume
    \/ LdReturn

SpecLoad ==
    InitLoad /\ [][NextLoad]_vars
-----------------------------------------------------------------------------
(* C1 *)

\* kw is a substring of the column name, letter case ignored on both sides
ContainsCI(kw, c) ==
    IsSubstr(LowerStr(kw), LowerStr(c))

\* the keyword positions that some column name contains
HitKeywords(cols, kws) ==
    {i \in 1..Len(kws) : \E j \in 1..Len(cols) : ContainsCI(kws[i], cols[j])}

\* the column the stated rule chooses
RuleColumn(df, kws) ==
    IF ~df.present \/ Len(df.cols) = 0 THEN None
    ELSE IF HitKeywords(df.cols, kws) = {} THEN df.cols[1]
    ELSE LET i == MinOf(HitKeywords(df.cols, kws))
         IN df.cols[MinOf({j \in 1..Len(df.cols) : ContainsCI(kws[i], df.cols[j])})]

AllLowerCase(kws) ==
    \A i \in 1..Len(kws) : LowerStr(kws[i]) = kws[i]

\* C1 as stated: for every table and every keyword list, guess_col returns the
\* column of the first keyword, in list order, that is a case-insensitive
\* substring of some column name (the first such column), else the first
\* column, and None only for an absent table or one without columns.
C1_AsStated ==
    gcPc = "done" =>
        /\ gcRes = RuleColumn(gcDf, gcKw)
        /\ (gcRes = None <=> (~gcDf.present \/ Len(gcDf.cols) = 0))

\* C1 amended: the same rule for every list of lower-case keywords (guess_col
\* lower-cases the column name only, never the keyword).
C1_GuessColRule ==
    (gcPc = "done" /\ AllLowerCase(gcKw)) =>
        /\ gcRes = RuleColumn(gcDf, gcKw)
        /\ (gcRes = None <=> (~gcDf.present \/ Len(gcDf.cols) = 0))

\* C1 witness: the first keyword is found only in the second column, the
\* second keyword in the first column, and the second column is returned.
C1_Witness ==
    /\ gcPc = "done"
    /\ gcDf.present /\ Len(gcDf.cols) = 2 /\ Len(gcKw) = 2
    /\ AllLowerCase(gcKw)
    /\ ContainsCI(gcKw[1], gcDf.cols[2]) /\ ~ContainsCI(gcKw[1], gcDf.cols[1])
    /\ ContainsCI(gcKw[2], gcDf.cols[1])
    /\ gcRes = gcDf.cols[2]

-----------------------------------------------------------------------------
(* C2, C3: normalization *)

\* the canonical set and the filtered set of the run
Canon ==
    heap["T"]

Filtered ==
    heap[dfRef]

\* no column name of the loaded table contains any keyword of kws
NoColumnFor(kws) ==
    \A j \in 1..Len(rawTx.cols) : \A i \in 1..Len(kws) :
        ~IsSubstr(kws[i], LowerStr(StripStr(rawTx.cols[j])))

\* the raw cell of row i under the column the resolver chose
GuessedCell(i, name) ==
    rawTx.rows[i][ColIndex(Canon.cols, name)]

\* C2 as stated: when no column name contains a status keyword, every record
\* of the canonical set is approved, and the approval rate of the non-empty
\* set is 100.
C2_AsStated ==
    (pc = "sidebar" /\ NoColumnFor(KwStatus)) =>
        /\ \A i \in 1..Len(Canon.rows) : Canon.rows[i].approved
        /\ Len(Canon.rows) > 0 =>
               Kpis(Canon.rows).aprov_num = 100 * Kpis(Canon.rows).aprov_den

\* C3 as stated: the canonical set has one record per raw row, in the raw
\* order and with the raw cells; an unparseable date or amount is null; the
\* field of a missing date, amount or status column is null, null and true.
C3_AsStated ==
    pc = "sidebar" =>
        /\ Len(Canon.rows) = Len(rawTx.rows)
        /\ \A i \in 1..Len(rawTx.rows) :
              /\ Canon.rows[i].cells = rawTx.rows[i]
              /\ (InCols(Canon.cols, colmap.date_col)
                  /\ GuessedCell(i, colmap.date_col).k \in {"txt", "null"})
                     => Canon.rows[i].dt = NaT
              /\ (InCols(Canon.cols, colmap.amount_col)
                  /\ GuessedCell(i, colmap.amount_col).k # "num")
                     => Canon.rows[i].amt = NaN
              /\ NoColumnFor(KwDate) => Canon.rows[i].dt = NaT
              /\ NoColumnFor(KwAmount) => Canon.rows[i].amt = NaN
              /\ NoColumnFor(KwStatus) => Canon.rows[i].approved

-----------------------------------------------------------------------------
(* C4 .. C7: the filter *)

\* the branch and the client id of a canonical record
BranchCell(r) ==
    r.cells[ColIndex(Canon.cols, colmap.agency_id_col)]

ClientCell(r) ==
    r.cells[ColIndex(Canon.cols, colmap.client_id_col)]

\* the filter ran, to its end or to an exception
Filtered_Or_Raised ==
    pc \in {"save", "error"}

\* the reference rows whose text under name_col is sel
RowsNamed(tbl, name_col, sel) ==
    IF tbl.present /\ InCols(tbl.cols, name_col)
    THEN {j \in 1..Len(tbl.rows) : tbl.rows[j][ColIndex(tbl.cols, name_col)].s = sel}
    ELSE {}

\* C4 as stated: with only the date predicate active, a complete interval
\* keeps exactly the records with a non-null timestamp between the start and
\* the end (inclusive), and an incomplete one keeps every record.
C4_AsStated ==
    (Filtered_Or_Raised /\ sel_ag = Todas /\ sel_client = Todos) =>
        /\ pc = "save"
        /\ LET Keep(r) == /\ r.dt # NaT
                          /\ Midnight(date_range[1]) <= r.dt
                          /\ r.dt <= Midnight(date_range[2])
           IN Filtered.rows = IF Len(date_range) = 2
                              THEN SelectSeq(Canon.rows, Keep)
                              ELSE Canon.rows

C6_AsStated ==
    (pc = "save" /\ sel_client # Todos /\ sel_client \in client_options
     /\ sel_ag = Todas /\ Len(date_range) # 2) =>
        LET named == RowsNamed(CliTable, cli_name_col, sel_client)
            ids   == {CliTable.rows[j][ColIndex(CliTable.cols, cli_id_master)] : j \in named}
            Keep(r) == IF named # {} THEN ClientCell(r) \in ids
                       ELSE ClientCell(r).s = sel_client
        IN Filtered.rows = SelectSeq(Canon.rows, Keep)

\* C7 as stated: with Todas, Todos and the date range at its default, the
\* filtered set is the canonical set.
C7_AsStated ==
    (Filtered_Or_Raised /\ sel_ag = Todas /\ sel_client = Todos
     /\ date_range = DefaultRange(Canon)) =>
        /\ pc = "save"
        /\ Filtered.rows = Canon.rows

-----------------------------------------------------------------------------
(* C8, C9: the session *)

\* C8: in every state of a session the canonical set is what normalization
\* first made it: the same rows, the same canonical fields, no column
\* rewritten, no column added.
C8_CanonicalNeverMutated ==
    Canon.present =>
        /\ CanonView(Canon) = CanonView(canonFirst)
        /\ Canon = canonFirst

\* C8 witness: a page rewrote a column of the frame an earlier run left in
\* the session, whose charts had been drawn; the next run filtered to fewer
\* records, and its canonical set is what it first was.
C8_Witness ==
    /\ pc = "save"
    /\ heap["S"].present /\ heap["S"].strcols # {} /\ "_month" \in heap["S"].extra
    /\ heap["D"].present /\ dfRef = "D"
    /\ Len(heap["D"].rows) < Len(Canon.rows)
    /\ Canon = canonFirst

\* C9: an application of the filter to the records, the selection and the
\* reference tables of the first application of the session yields the
\* filtered set of the first application.
C9_FilterPure ==
    (pc = "save" /\ probe.set /\ probe.tx = Canon.rows /\ probe.dr = date_range
     /\ probe.sa = sel_ag /\ probe.sc = sel_client) =>
        Filtered.rows = probe.out

\* C9 witness: the first selection is applied again after another one, whose
\* filtered set (still held by the session) differs.
C9_Witness ==
    /\ pc = "save" /\ probe.set /\ probe.tx = Canon.rows /\ probe.dr = date_range
    /\ probe.sa = sel_ag /\ probe.sc = sel_client
    /\ session.dfRef = "S"
    /\ heap["S"].rows # probe.out
    /\ Len(probe.out) > 0 /\ Len(probe.out) < Len(Canon.rows)
    /\ Filtered.rows = probe.out

-----------------------------------------------------------------------------
(* C10: the KPIs *)

\* the positions of the filtered records with an amount
WithAmount ==
    {i \in 1..Len(Filtered.rows) : Filtered.rows[i].amt # NaN}

RECURSIVE TotalOver(_, _)
\* the total of the amounts at the positions of S
TotalOver(rows, S) ==
    IF S = {} THEN 0
    ELSE LET i == CHOOSE j \in S : TRUE
         IN rows[i].amt + TotalOver(rows, S \ {i})

\* the amounts of the filtered set, null as NaN
Amounts ==
    [i \in 1..Len(Filtered.rows) |-> Filtered.rows[i].amt]

\* C10: count is the number of filtered records, sum the total of the
\* non-null amounts (0 when all are null), mean is sum / count and 0 for the
\* empty set; amounts 100, null, 50 give 3, 150 and 50.
C10_Kpis ==
    pc = "left" =>
        /\ kpi.total_trans = Len(Filtered.rows)
        /\ kpi.total_vol = TotalOver(Filtered.rows, WithAmount)
        /\ WithAmount = {} => kpi.total_vol = 0
        /\ kpi.ticket_den > 0
        /\ kpi.ticket_num * Len(Filtered.rows) = kpi.total_vol * kpi.ticket_den
        /\ Len(Filtered.rows) = 0 => kpi.ticket_num = 0
        /\ Amounts = <<100, NaN, 50>> =>
              /\ kpi.total_trans = 3
              /\ kpi.total_vol = 150
              /\ kpi.ticket_num = 50 * kpi.ticket_den

\* C10 witness: the KPIs of three records with amounts 100, null and 50.
C10_Witness ==
    /\ pc = "left"
    /\ Amounts = <<100, NaN, 50>>
    /\ kpi.total_trans = 3 /\ kpi.total_vol = 150
    /\ kpi.ticket_num = 150 /\ kpi.ticket_den = 3

-----------------------------------------------------------------------------
(* C11: the approval rate as rendered *)

\* the filtered records that are approved
ApprovedRows ==
    {i \in 1..Len(Filtered.rows) : Filtered.rows[i].approved}

\* the text of a percentage is that of p / q to one decimal, to within
\* half a tenth
IsPctOf(txt, p, q) ==
    \E t \in 0..1000 :
        /\ txt = Digits(t \div 10) \o <<".">> \o Digits(t % 10) \o <<"%">>
        /\ 2 * q * t >= 2 * 1000 * p - q
        /\ 2 * q * t <= 2 * 1000 * p + q

\* what the card and the PDF must show for the filtered set
RateShown(txt) ==
    IF Len(Filtered.rows) = 0 THEN txt = <<"N", "/", "A">>
    ELSE IsPctOf(txt, Cardinality(ApprovedRows), Len(Filtered.rows))

\* C11: once the KPIs are rendered, the approval rate on the card is the
\* percentage of approved records of the filtered set, and N/A (never 0%)
\* for the empty set; the KPI table of an exported PDF shows the same.
C11_ApprovalRateShown ==
    /\ pc \in {"left", "right"} => RateShown(view.card)
    /\ (pc = "right" /\ view.pdf.made) =>
           /\ RateShown(view.pdf.aprov)
           /\ view.pdf.aprov = view.card

\* C11 witness: a PDF exported for an empty filtered set of a non-empty
\* canonical set, N/A on the card and in the PDF.
C11_Witness ==
    /\ pc = "right" /\ view.pdf.made /\ view.pdf.offered
    /\ Len(Canon.rows) > 0 /\ Len(Filtered.rows) = 0
    /\ view.card = <<"N", "/", "A">> /\ view.pdf.aprov = <<"N", "/", "A">>


-----------------------------------------------------------------------------
(* Rankings *)

\* the rankings on screen: that of the main page and that of the sub-page
MainRanking ==
    view.ranking

PageRanking(name) ==
    IF view.page.name = name THEN view.page.rank ELSE NoRank

CountNonIncreasing(rank) ==
    \A i \in 1..(Len(rank) - 1) : rank[i].n >= rank[i + 1].n

VolumeNonIncreasing(rank) ==
    \A i \in 1..(Len(rank) - 1) : rank[i].vol >= rank[i + 1].vol

\* groupby hands the groups to the sort by ascending label: rows of equal
\* count that keep that order
TiesInInputOrder(rank) ==
    \A i, j \in 1..Len(rank) :
        (i < j /\ rank[i].n = rank[j].n) => StrLess(rank[i].label, rank[j].label)

\* short is the first n rows of long, or all of long when it has fewer
IsHead(short, long, n) ==
    /\ Len(short) = (IF Len(long) <= n THEN Len(long) ELSE n)
    /\ \A i \in 1..Len(short) : short[i] = long[i]

\* chart shows the first n rows of rank, the smallest key first
IsChartOfHead(chart, rank, n, Key(_)) ==
    /\ Len(chart) = (IF Len(rank) <= n THEN Len(rank) ELSE n)
    /\ RangeOf(chart) = {rank[i] : i \in 1..Len(chart)}
    /\ \A i \in 1..(Len(chart) - 1) : Key(chart[i]) <= Key(chart[i + 1])

CountOf(g) ==
    g.n

VolumeOf(g) ==
    g.vol

\* C12 as the specification states it: every ranking (main page, Agencias
\* page, Clientes page) is ordered by transaction count, non-increasing, rows
\* of equal count keep their input order, and the head views are prefixes of
\* that order
C12_AsStated ==
    \A rv \in {MainRanking, PageRanking("Agencias"), PageRanking("Clientes")} :
        rv.status = "ok" =>
            /\ CountNonIncreasing(rv.rank)
            /\ TiesInInputOrder(rv.rank)
            /\ \E n \in {TopTable, TopClientTable, Len(rv.rank)} : IsHead(rv.table, rv.rank, n)

\* C12: the branch rankings of the main page and of the Agencias page are
\* ordered by transaction count, non-increasing, and the client ranking of
\* the Clientes page by volume, non-increasing, with no promise about the
\* order of rows of equal key; the chart shows the first 10 (clients: 20)
\* rows of that order, smallest key first, and the table is its first 50
\* (clients: 100) rows, on the Agencias page the whole ranking
C12_RankingOrder ==
    /\ MainRanking.status = "ok" =>
          /\ CountNonIncreasing(MainRanking.rank)
          /\ IsChartOfHead(MainRanking.chart, MainRanking.rank, TopChart, CountOf)
          /\ IsHead(MainRanking.table, MainRanking.rank, TopTable)
    /\ PageRanking("Agencias").status = "ok" =>
          /\ CountNonIncreasing(PageRanking("Agencias").rank)
          /\ IsChartOfHead(PageRanking("Agencias").chart, PageRanking("Agencias").rank,
                           TopChart, CountOf)
          /\ PageRanking("Agencias").table = PageRanking("Agencias").rank
    /\ PageRanking("Clientes").status = "ok" =>
          /\ VolumeNonIncreasing(PageRanking("Clientes").rank)
          /\ IsChartOfHead(PageRanking("Clientes").chart, PageRanking("Clientes").rank,
                           TopClientChart, VolumeOf)
          /\ IsHead(PageRanking("Clientes").table, PageRanking("Clientes").rank,
                    TopClientTable)

\* the Clientes page shows a ranking of more clients than its table holds,
\* in which a client of fewer transactions stands before one of more, next to
\* a main-page ranking of more branches than its table holds whose rows of
\* equal count are not all in their input order
C12_Witness ==
    /\ PageRanking("Clientes").status = "ok"
    /\ Len(PageRanking("Clientes").rank) > TopClientTable
    /\ ~CountNonIncreasing(PageRanking("Clientes").rank)
    /\ MainRanking.status = "ok"
    /\ Len(MainRanking.rank) > TopTable
    /\ ~TiesInInputOrder(MainRanking.rank)

-----------------------------------------------------------------------------
(* The trailing window *)

\* the frame the sub-pages read from the session
SessionFrame ==
    IF session.dfRef = "none" THEN NoFrame ELSE heap[session.dfRef]

\* the records with max_ts - 6 calendar months <= t <= max_ts, where max_ts
\* is the latest timestamp of rows; none when no record has a timestamp
WindowOf(rows) ==
    LET ts == {rows[i].dt : i \in 1..Len(rows)} \ {NaT}
    IN IF ts = {} THEN <<>>
       ELSE LET max_ts == CHOOSE t \in ts : \A u \in ts : u <= t
            IN SelectSeq(rows, LAMBDA r : /\ r.dt # NaT
                                          /\ MonthsBack(max_ts, WindowMonths) <= r.dt
                                          /\ r.dt <= max_ts)

\* timestamp and amount of each record
RecordsOf(rows) ==
    [i \in 1..Len(rows) |-> [dt |-> rows[i].dt, amt |-> rows[i].amt]]

RECURSIVE RankCount(_)
\* the transactions a ranking counts
RankCount(rank) ==
    IF Len(rank) = 0 THEN 0
    ELSE IF Len(rank) = 1 THEN rank[1].n
    ELSE LET h == Len(rank) \div 2
         IN RankCount(SubSeq(rank, 1, h)) + RankCount(SubSeq(rank, h + 1, Len(rank)))

RECURSIVE RankVolume(_)
\* the volume a ranking adds up
RankVolume(rank) ==
    IF Len(rank) = 0 THEN 0
    ELSE IF Len(rank) = 1 THEN rank[1].vol
    ELSE LET h == Len(rank) \div 2
         IN RankVolume(SubSeq(rank, 1, h)) + RankVolume(SubSeq(rank, h + 1, Len(rank)))

\* the ranking rv is made of exactly the records rows (in these runs a
\* reference table gives an id one name, so the merge adds no record)
ComputedOver(rv, rows) ==
    /\ RecordsOf(rv.used) = RecordsOf(rows)
    /\ rv.status = "ok" <=> Len(rows) > 0
    /\ RankCount(rv.rank) = Cardinality({i \in 1..Len(rows) : rows[i].amt # NaN})
    /\ RankVolume(rv.rank) = RankVolume([i \in 1..Len(rows) |->
                                 [vol |-> IF rows[i].amt = NaN THEN 0 ELSE rows[i].amt]])

Computed(rv) ==
    rv.status \in {"ok", "nodata"}

\* C13 as the specification states it: the branch ranking, wherever one is
\* shown (main page, Agencias page, PDF), is made of exactly the filtered
\* records within six calendar months before the latest timestamp of the
\* filtered set
C13_AsStated ==
    /\ Computed(MainRanking) => ComputedOver(MainRanking, WindowOf(Filtered.rows))
    /\ view.page.name = "Agencias" /\ view.page.status = "ok" =>
          ComputedOver(view.page.rank, WindowOf(SessionFrame.rows))
    /\ Computed(view.pdf.ranking) =>
          ComputedOver(view.pdf.ranking, WindowOf(Filtered.rows))

\* C13: the branch ranking of the main page and that of the Agencias page
\* are made of exactly the filtered records whose timestamp t satisfies
\* max_ts - 6 calendar months <= t <= max_ts, max_ts the latest timestamp
\* of the filtered set; the ranking of the PDF is made of the whole
\* filtered set
C13_TrailingWindow ==
    /\ Computed(MainRanking) => ComputedOver(MainRanking, WindowOf(Filtered.rows))
    /\ view.page.name = "Agencias" /\ view.page.status = "ok" =>
          ComputedOver(view.page.rank, WindowOf(SessionFrame.rows))
    /\ Computed(view.pdf.ranking) => ComputedOver(view.pdf.ranking, Filtered.rows)

\* a filtered set of two dated records, the older more than six months
\* before the later: the main page, the Agencias page rank one record, the
\* PDF both
C13_Witness ==
    /\ dfRef # "none"
    /\ Len(Filtered.rows) = 2
    /\ \A i \in 1..2 : Filtered.rows[i].dt # NaT
    /\ MainRanking.status = "ok" /\ Len(MainRanking.used) = 1
    /\ view.page.name = "Agencias" /\ view.page.status = "ok"
    /\ Len(view.page.rank.used) = 1
    /\ view.pdf.ranking.status = "ok" /\ Len(view.pdf.ranking.used) = 2

-----------------------------------------------------------------------------
(* Labels *)

\* The reference tables of the model keep the id in their first column and
\* the display name in their second.  The display name the reference table
\* tbl has for the id text x, the id itself where the table is absent or has
\* no row for it
DisplayName(tbl, x) ==
    IF tbl.present /\ \E i \in 1..Len(tbl.rows) : tbl.rows[i][1].s = x
    THEN tbl.rows[CHOOSE i \in 1..Len(tbl.rows) : tbl.rows[i][1].s = x][2].s
    ELSE x

\* every record a ranking was made of carries the label tbl gives its id
LabelledBy(rv, tbl) ==
    \A i \in 1..Len(rv.used) : rv.used[i].label = DisplayName(tbl, rv.used[i].id)

\* C14 as the specification states it: the label of every record is the
\* display name of the reference row of its id, its raw id as text when
\* there is no such row or no reference table, and no ranking fails when the
\* reference table is absent or empty
C14_AsStated ==
    /\ MainRanking.status = "ok" => LabelledBy(MainRanking, AgTable)
    /\ view.pdf.ranking.status = "ok" => LabelledBy(view.pdf.ranking, AgTable)
    /\ PageRanking("Agencias").status = "ok" => LabelledBy(PageRanking("Agencias"), AgTable)
    /\ PageRanking("Clientes").status = "ok" => LabelledBy(PageRanking("Clientes"), CliTable)
    /\ (~AgTable.present \/ Len(AgTable.rows) = 0) =>
          /\ MainRanking.status # "error"
          /\ view.pdf.ranking.status # "error"
          /\ view.page.name = "Agencias" => view.page.status # "raised"
    /\ (~CliTable.present \/ Len(CliTable.rows) = 0) =>
          (view.page.name = "Clientes" => view.page.status # "raised")

-----------------------------------------------------------------------------
(* The empty filtered set *)

\* an aggregate that was not computed, or that found nothing to show
EmptyAgg(a) ==
    a.status \in {"none", "nodata"} /\ a.rows = <<>>

EmptyRank(rv) ==
    rv.status \in {"none", "nodata"} /\ rv.rank = <<>>

\* C15 as the specification states it: with an empty filtered set no
\* aggregate raises, each yields an empty result, and the pages and the PDF
\* show their no-data messages (the weekday chart of the main page has no
\* message of its own and shows no bucket)
C15_AsStated ==
    (dfRef # "none" /\ Len(Filtered.rows) = 0 /\ Len(SessionFrame.rows) = 0) =>
        /\ pc # "error"
        /\ pc \in {"left", "right", "compat", "done"} => view.card = <<"N", "/", "A">>
        /\ EmptyAgg(view.monthly)
        /\ EmptyRank(view.ranking)
        /\ view.weekly.status \in {"none", "ok"} /\ view.weekly.rows = <<>>
        /\ EmptyAgg(view.pdf.monthly)
        /\ EmptyRank(view.pdf.ranking)
        /\ view.page.status \in {"none", "nodata", "ok"}
        /\ EmptyRank(view.page.rank)
        /\ view.page.weekly = <<>>

-----------------------------------------------------------------------------
(* Loading *)

OptionalFiles ==
    {"agencias", "clientes"}

\* C16 as the specification states it: when the file of a reference table is
\* there and no read configuration reads it, loading does not fail, and the
\* run goes on to normalize the transactions table
C16_AsStated ==
    (badFiles # {} /\ badFiles \subseteq OptionalFiles /\ rawTx.present /\ pc # "start") =>
        (pc = "normalize" \/ heap["T"].present)

\* C17: without a transactions file a run never leaves the start: it stops
\* at line 323 with the error message of line 322 on the page (or load_data
\* raised on another file and the run ended in that exception), and nothing
\* is normalized, filtered, computed or written to the session state
C17_HaltsWithoutTransactions ==
    (~rawTx.present /\ "transacoes" \notin badFiles) =>
        /\ pc \in {"start", "halted", "error"}
        /\ pc = "halted" => view.alert = FileNotFoundMessage
        /\ pc = "error" => badFiles # {}
        /\ (pc # "start" /\ badFiles = {}) => pc = "halted"
        /\ ~heap["T"].present
        /\ colmap = NoCols
        /\ dfRef = "none"
        /\ kpi = NoKpi
        /\ session = NoSession
        /\ view.card = <<>> /\ view.page = NoPage

C17_Witness ==
    /\ ~rawTx.present
    /\ "transacoes" \notin badFiles
    /\ pc = "halted"
    /\ view.alert = FileNotFoundMessage

IsPrefixOf(s, t) ==
    Len(s) <= Len(t) /\ \A i \in 1..Len(s) : s[i] = t[i]

\* C19: load_csv_auto reads with the comma, then with the semicolon, then
\* with the semicolon and Latin-1; each configuration tried before the last
\* one tried has raised; the value returned is that of the first read that
\* succeeded; the function raises only after three reads that raised; for
\* the path None it returns None and reads nothing
C19_FallbackOrder ==
    /\ IsPrefixOf(lcTried, << "comma", "semicolon", "semicolon_latin1" >>)
    /\ \A i \in 1..(Len(lcTried) - 1) : lcFile.read[lcTried[i]] = "raise"
    /\ lcPc \in {"try1", "try2", "try3"} =>
          \A i \in 1..Len(lcTried) : lcFile.read[lcTried[i]] = "raise"
    /\ (lcPc = "returned" /\ lcFile.path) =>
          /\ lcTried # <<>>
          /\ lcFile.read[lcTried[Len(lcTried)]] = "table"
          /\ lcRes = lcTried[Len(lcTried)]
    /\ lcPc = "raised" =>
          /\ Len(lcTried) = 3
          /\ \A c \in {"comma", "semicolon", "semicolon_latin1"} : lcFile.read[c] = "raise"
    /\ (lcPc \in {"called", "returned"} /\ ~lcFile.path) =>
          /\ lcTried = <<>>
          /\ lcPc = "returned" => lcRes = "None"
    /\ lcPc \in {"returned", "raised"} =>
          /\ LoadCsvAuto(lcFile).raised = (lcPc = "raised")
          /\ LoadCsvAuto(lcFile).tried = lcTried
          /\ lcPc = "returned" => LoadCsvAuto(lcFile).value = lcRes

\* a file that only the third configuration reads has been read
C19_Witness ==
    /\ lcPc = "returned"
    /\ lcTried = << "comma", "semicolon", "semicolon_latin1" >>
    /\ lcRes = "semicolon_latin1"
    /\ ldPc = "call"

-----------------------------------------------------------------------------
(* One aggregate fails *)

\* the aggregate raised: its exception was caught and an inline message
\* shown ("error"), or nothing caught it ("raised")
Failed(a) ==
    a.status \in {"error", "raised"}

Rendered(a) ==
    a.status # "none"

\* C18 as the specification states it: whichever aggregate of the main page
\* or of the PDF raises, the exception is caught and shown inline, and the
\* other aggregates of that page or document are computed and rendered
C18_AsStated ==
    /\ view.monthly.status # "raised"
    /\ view.ranking.status # "raised"
    /\ view.weekly.status # "raised"
    /\ (Failed(view.monthly) \/ Failed(view.ranking) \/ Failed(view.weekly)) =>
          /\ Rendered(view.monthly) /\ Rendered(view.ranking) /\ Rendered(view.weekly)
          /\ pc # "error"
    /\ view.pdf.monthly.status # "raised"
    /\ view.pdf.ranking.status # "raised"
    /\ (Failed(view.pdf.monthly) \/ Failed(view.pdf.ranking)) =>
          /\ Rendered(view.pdf.monthly) /\ Rendered(view.pdf.ranking)
          /\ view.pdf.made

-----------------------------------------------------------------------------
(* The weekday aggregate *)

\* 1 for Monday .. 7 for Sunday: 1 January 1970 was a Thursday
WeekdayNo(ts) ==
    ((DayOf(ts) + 3) % 7) + 1

OnWeekday(rows, k) ==
    SelectSeq(rows, LAMBDA r : r.dt # NaT /\ WeekdayNo(r.dt) = k)

NamePlace(names, label) ==
    CHOOSE i \in 1..Len(names) : names[i] = label

\* the buckets carry weekday names, Monday before Tuesday before ... Sunday
MondayFirst(buckets, names) ==
    /\ \A i \in 1..Len(buckets) : buckets[i].label \in RangeOf(names)
    /\ \A i, j \in 1..Len(buckets) :
          i < j => NamePlace(names, buckets[i].label) < NamePlace(names, buckets[j].label)

\* each record with a timestamp is counted in the bucket of its weekday and
\* in no other; a weekday without records has no bucket, or with `all` a
\* bucket without volume
BucketsHold(buckets, names, rows, all) ==
    \A k \in 1..Len(names) :
        LET recs == OnWeekday(rows, k)
            mine == SelectSeq(buckets, LAMBDA b : b.label = names[k])
        IN IF Len(recs) = 0
           THEN IF all THEN Len(mine) = 1 /\ mine[1].n = 0 /\ mine[1].vol = NaN
                ELSE Len(mine) = 0
           ELSE /\ Len(mine) = 1
                /\ mine[1].n = CountAmt(recs)
                /\ mine[1].vol = SumAmt(recs)

\* C20: on the main page, on the Resumo page and on the Tendencias page the
\* weekday buckets stand in the order Monday .. Sunday, whatever the order
\* of the records, and each record with a timestamp is in the bucket of the
\* weekday of its timestamp; the Resumo page lists all seven weekdays
C20_WeekdayOrder ==
    /\ view.weekly.status = "ok" =>
          /\ MondayFirst(view.weekly.rows, WeekdaysPt)
          /\ BucketsHold(view.weekly.rows, WeekdaysPt, Filtered.rows, FALSE)
    /\ (view.page.name = "Tendencias" /\ view.page.status = "ok") =>
          /\ MondayFirst(view.page.weekly, WeekdaysPt)
          /\ BucketsHold(view.page.weekly, WeekdaysPt, SessionFrame.rows, FALSE)
    /\ (view.page.name = "Resumo" /\ view.page.status = "ok") =>
          /\ Len(view.page.weekly) = 7
          /\ MondayFirst(view.page.weekly, WeekdaysPtCap)
          /\ BucketsHold(view.page.weekly, WeekdaysPtCap, SessionFrame.rows, TRUE)

\* a Sunday record stands before a Monday record in the filtered set, and
\* the Tendencias page has shown its two buckets after the main page
C20_Witness ==
    /\ dfRef # "none"
    /\ Len(Filtered.rows) = 2
    /\ Filtered.rows[1].dt # NaT /\ WeekdayNo(Filtered.rows[1].dt) = 7
    /\ Filtered.rows[2].dt # NaT /\ WeekdayNo(Filtered.rows[2].dt) = 1
    /\ view.weekly.status = "ok"
    /\ Len(view.weekly.rows) = 2
    /\ view.page.name = "Tendencias"
    /\ Len(view.page.weekly) = 2

-----------------------------------------------------------------------------
(* The session keys *)

\* the keys the sub-pages read without a default
KeysReadByPages ==
    {"amount_col", "date_col", "agency_id_col", "agencias_df", "clientes_df"}

SubPages ==
    {"Agencias", "Resumo", "Tendencias", "Clientes"}

\* C21 as the specification states it: once a run of the main page has
\* ended, however it ended, df_filtered is in the session state only
\* together with every key the sub-pages read, and no sub-page past its
\* guard ends in a KeyError
C21_AsStated ==
    (pc \in {"done", "error", "halted"} /\ "df_filtered" \in session.keys) =>
        /\ KeysReadByPages \subseteq session.keys
        /\ ~(view.page.name \in SubPages /\ view.page.status = "raised")

-----------------------------------------------------------------------------
(* The table under df_filtered *)

\* C22 as the specification states it: as long as the session state is not
\* written, no step of the main page or of a sub-page changes the table
\* stored under df_filtered: its rows, its columns, the types of its values
C22_AsStated ==
    [][(session.dfRef # "none" /\ session' = session) =>
          heap'[session.dfRef] = heap[session.dfRef]]_vars

-----------------------------------------------------------------------------
(* Every transaction counted once *)

\* the counts of the ranking rows add up to the number of records
CountsEveryRecord(rv, rows) ==
    rv.status = "ok" => RankCount(rv.rank) = Len(rows)

\* C23 as the specification states it: the transaction counts of a branch
\* ranking add up to the number of records of the set it is made of (the
\* trailing window of the filtered set; the whole filtered set in the PDF),
\* null amounts and ids with two display names included
C23_AsStated ==
    /\ CountsEveryRecord(MainRanking, WindowOf(Filtered.rows))
    /\ view.page.name = "Agencias" =>
          CountsEveryRecord(view.page.rank, WindowOf(SessionFrame.rows))
    /\ CountsEveryRecord(view.pdf.ranking, Filtered.rows)

-----------------------------------------------------------------------------
(* The client selector *)

\* C24 as the specification states it: the option the client selector
\* returned is matched against the column the options were read from, and
\* resolves to the ids of the reference rows that show it, at least one
C24_AsStated ==
    (pc = "save" /\ CliTable.present /\ sel_client # Todos /\ sel_client \in client_options) =>
        /\ cli_name_col = cli_name
        /\ LET ids == IdsNamed(CliTable, cli_name_col, cli_id_master, sel_client)
               shown == {j \in 1..Len(CliTable.rows) :
                            CliTable.rows[j][ColIndex(CliTable.cols, cli_name)].s = sel_client}
           IN /\ ids # {}
              /\ ids = {CliTable.rows[j][ColIndex(CliTable.cols, cli_id_master)] : j \in shown}

-----------------------------------------------------------------------------
(* The end day of the date interval *)

\* the records of rows whose timestamp falls on calendar day d
OnDay(rows, d) ==
    SelectSeq(rows, LAMBDA r : r.dt # NaT /\ DayOf(r.dt) = d)

\* C25 as the specification states it: with a date interval selected (and
\* no branch, no client), every record whose timestamp falls on the end day
\* of the interval is in the filtered set, whatever its time of day, as is
\* every record of the start day
C25_AsStated ==
    (pc = "save" /\ Len(date_range) = 2 /\ sel_ag = Todas /\ sel_client = Todos) =>
        /\ OnDay(Filtered.rows, date_range[2]) = OnDay(Canon.rows, date_range[2])
        /\ OnDay(Filtered.rows, date_range[1]) = OnDay(Canon.rows, date_range[1])

====
